---- MODULE Spec2Model ----
(***************************************************************************)
(* HTTP/3 connection engine of quic-go's http3 package: the peer           *)
(* unidirectional stream acceptor, the control stream reader and the       *)
(* peer-settings latch, the bidirectional accept loop, the WebTransport    *)
(* session-id demultiplexer, connection construction and the client's      *)
(* request cancellation observer.                                          *)
(*                                                                         *)
(* The QUIC session is an external collaborator.  Its calls are recorded:  *)
(* closeCalls is the sequence of session.CloseWithError calls, resets the  *)
(* set of CancelRead / CancelWrite calls made on streams.                  *)
(***************************************************************************)
EXTENDS Integers, Sequences, FiniteSets, TLC

\* ---------------------------------------------------------------- bounds
MaxUniStreams == 3
MaxBidiStreams == 2
MaxUnits == 2
MaxAccepts == 2
MaxBurst == 11
MaxCleanups == 1
MaxRequests == 2
MaxInterim == 2
MaxChunks == 2
MaxServed == 2
MaxCloses == 2

\* ------------------------------------------------------ program constants
pseudoHeaderStatus == ":status"
defaultMaxFieldSectionSize == 16777216
testMaxHeaderBytes == 20
DefaultMaxHeaderBytes == 1048576
MethodGet0RTT == "GET_0RTT"
MethodGet == "GET"
MethodPost == "POST"
MethodConnect == "CONNECT"
errorNoError == 256
errorGeneralProtocolError == 257
errorInternalError == 258
errorStreamCreationError == 259
errorFrameUnexpected == 261
errorFrameError == 262
errorIDError == 264
errorSettingsError == 265
errorMissingSettings == 266
errorRequestCanceled == 268
errorRequestIncomplete == 269
errorMessageError == 270
errorWebTransportBufferedStreamRejected == 966049156
maxBufferedStreams == 10
maxBufferedDatagrams == 10

\* Stream type tags: the first varint of a peer-initiated unidirectional stream.
StreamTypeControl == 0
StreamTypePush == 1
StreamTypeQPACKEncoder == 2
StreamTypeQPACKDecoder == 3
StreamTypeWebTransportStream == 84
\* A tag outside the known ones, as the tests use it.
StreamTypeUnknown == 1337
\* The outcome of quicvarint.Read failing (reset or truncated stream).
ReadErr == -1

VARIABLES
    role,              \* session.Perspective(): "client" or "server"
    settings,          \* conn.settings: [datagram, webtransport]
    supportsDatagrams, \* session.ConnectionState().SupportsDatagrams
    closeCalls,        \* session.CloseWithError calls, in order: [code, why]
    resets,            \* CancelRead / CancelWrite calls: <<stream, op, code>>
    uniSeen,           \* accepted unidirectional streams, per content
    uniH,              \* running handleIncomingUniStream goroutines
    peerStreams,       \* conn.peerStreams: slot 0..3 -> stream or NoStream
    ctlH,              \* handleControlStream goroutines (running and finished)
    latchCloses,       \* number of close(conn.peerSettingsDone)
    peerSettings,      \* conn.peerSettings
    peerSettingsErr,   \* conn.peerSettingsErr
    obsLog,            \* pairs returned by PeerSettings through the latch
    bidiSeen,          \* accepted bidirectional streams, per content
    bidiH,             \* running handleIncomingStream goroutines
    acceptLoop,        \* handleIncomingStreams: "idle", "running", "draining", "closed"
    reqChan,           \* conn.incomingRequestStreams (buffered channel)
    handed,            \* streams sent on incomingRequestStreams
    accepted,          \* what the AcceptRequestStream calls returned, and when
    chans,             \* the channels made by incoming*Chan, per kind, in order of creation
    table,             \* conn.incomingStreams / incomingUniStreams / incomingDatagrams
    cons,              \* acceptStream / acceptUniStream / readDatagram calls, per kind and session
    dgSeen,            \* datagrams received, per session id
    dgH,               \* handleIncomingDatagrams goroutine
    rejects,           \* <<stream, length of the channel found full>>
    unitsSeen,         \* streams and datagrams received from the peer so far
    cl,                \* cleanup(sessionID) in progress, and the number of calls
    sess,              \* the QUIC session: [dialed, handshake (HandshakeComplete() is done), gone]
    newc,              \* newConn: its position and the writes on the local control stream
    cli,               \* the client: [once (dialOnce), handshakeErr, dials (calls of the dialer)]
    reqs,              \* RoundTrip calls, their request streams, observers and bodies
    srv,               \* the server: its connection settings and the request streams it handles
    resp,              \* the response doRequest is about to return
    limits             \* the header limits computed by maxHeaderBytes / peerMaxHeaderBytes

vars == <<role, settings, supportsDatagrams, closeCalls, resets, uniSeen, uniH,
          peerStreams, ctlH, latchCloses, peerSettings, peerSettingsErr, obsLog,
          bidiSeen, bidiH, acceptLoop, reqChan, handed, accepted, chans, table, cons, dgSeen,
          dgH, rejects, unitsSeen, cl, sess, newc, cli, reqs, srv, resp, limits>>

connVars == <<role, settings, supportsDatagrams>>
uniVars == <<uniSeen, uniH, peerStreams>>
ctlVars == <<ctlH, latchCloses, peerSettings, peerSettingsErr, obsLog>>
bidiVars == <<bidiSeen, bidiH, acceptLoop, reqChan, handed, accepted>>
demuxVars == <<chans, table, rejects>>
dgVars == <<dgSeen, dgH>>
clientVars == <<sess, newc, cli, reqs>>
\* What the handlers of peer unidirectional streams never touch, and likewise
\* for the bidirectional stream handlers and for the session-level operations.
outUni == <<bidiVars, cons, dgVars, cl, clientVars, srv, resp, limits>>
outBidi == <<uniVars, ctlVars, cons, dgVars, cl, clientVars, srv, resp, limits>>
outSess == <<uniVars, ctlVars, bidiVars, clientVars, srv, resp, limits>>
\* What construction, the client's RoundTrip and the response body never touch.
outClient == <<settings, supportsDatagrams, resets, uniVars, ctlVars, bidiSeen, bidiH, reqChan,
               handed, accepted, demuxVars, cons, dgVars, unitsSeen, cl, srv, resp, limits>>

\* ------------------------------------------------------------ data model
NoStream == [tag |-> ReadErr, sid |-> 0, n |-> 0]
NilSettings == [valid |-> FALSE, datagram |-> FALSE, hasMax |-> FALSE, max |-> 0]

\* WebTransport session ids the peer may send; 1 is not a client-initiated
\* bidirectional stream id.
SessionIDs == {0, 1, 4}
\* isClientBidi: the low two bits of the id are zero.
IsClientBidi(id) == id % 4 = 0
ValidSessionIDs == {i \in SessionIDs : IsClientBidi(i)}
Kinds == {"bidi", "uni", "dgram"}

\* What a peer unidirectional stream carries: its type tag and, for a
\* WebTransport stream, the session id that follows.
UniPlain == {[tag |-> t, sid |-> 0] :
                t \in {ReadErr, StreamTypeControl, StreamTypePush, StreamTypeQPACKEncoder,
                       StreamTypeQPACKDecoder, StreamTypeUnknown}}
UniWT == {[tag |-> StreamTypeWebTransportStream, sid |-> i] : i \in SessionIDs \cup {ReadErr}}
UniContents == UniPlain \cup UniWT

\* Frames of a peer bidirectional stream: the frame type and, for a
\* WEBTRANSPORT_STREAM frame, the session id carried in the length field.
Frame(t) == [t |-> t, sid |-> 0]
WTFrame(i) == [t |-> "WEBTRANSPORT_STREAM", sid |-> i]
PlainFrames == {Frame(t) : t \in {"HEADERS", "DATA", "SETTINGS", "PUSH_PROMISE", "GOAWAY", "GREASE"}}
BidiRequestContents ==
    {<<>>} \cup {<<f>> : f \in PlainFrames} \cup {<<f, g>> : f \in PlainFrames, g \in PlainFrames}
BidiWTContents == {<<WTFrame(i)>> : i \in SessionIDs}
BidiContents == BidiRequestContents \cup BidiWTContents
EOFFrame == Frame("EOF")

\* The first frame of a peer control stream, as readSettings sees it.
ControlFrames ==
    {[type |-> "SETTINGS", ok |-> TRUE, datagram |-> d, hasMax |-> FALSE, max |-> 0] :
        d \in BOOLEAN}
    \cup {[type |-> "SETTINGS", ok |-> TRUE, datagram |-> FALSE, hasMax |-> TRUE, max |-> m] :
              m \in {0, testMaxHeaderBytes}}
    \cup {[type |-> "SETTINGS", ok |-> FALSE, datagram |-> FALSE, hasMax |-> FALSE, max |-> 0],
          [type |-> "DATA", ok |-> TRUE, datagram |-> FALSE, hasMax |-> FALSE, max |-> 0],
          [type |-> "EOF", ok |-> FALSE, datagram |-> FALSE, hasMax |-> FALSE, max |-> 0]}

EOFControl == [type |-> "EOF", ok |-> FALSE, datagram |-> FALSE, hasMax |-> FALSE, max |-> 0]

\* The session is closed: by a CloseWithError of this endpoint, or by the
\* peer or the transport.
Closed == closeCalls # <<>> \/ sess.gone
CloseWithError(code, why) == closeCalls' = Append(closeCalls, [code |-> code, why |-> why])
Cancel(s, op, code) == <<s, op, code>>
CloseCodes == {closeCalls[k].code : k \in DOMAIN closeCalls}

\* readSettings: the settings of a well-formed SETTINGS frame, an error for
\* any other first frame, a truncated payload or a failed read.
ReadSettings(frame) ==
    IF frame.type = "SETTINGS" /\ frame.ok
    THEN [s |-> [valid |-> TRUE, datagram |-> frame.datagram,
                 hasMax |-> frame.hasMax, max |-> frame.max], err |-> "nil"]
    ELSE [s |-> NilSettings,
          err |-> IF frame.type = "EOF" THEN "read error"
                  ELSE IF frame.type = "SETTINGS" THEN "parse error"
                  ELSE "unexpected frame type"]

\* newConn: not called yet, called (by Accept on a server, by Open from the
\* client's dial), and returned with the control stream written.
NotConstructed == [pc |-> "none", out |-> <<>>]
NewConnCalled == [pc |-> "start", out |-> <<>>]
Constructed == [pc |-> "ready", out |-> <<"CONTROL", "SETTINGS">>]

\* The RoundTrip calls of one client, and a call that has not started.
Requests == 1..MaxRequests
\* The first of the calls.
FirstCall == {r \in Requests : \A q \in Requests : r <= q}
NewRequest ==
    [pc |-> "idle", ctxDone |-> FALSE, str |-> FALSE, err |-> "nil",
     reqDone |-> 0, obs |-> "none", calls |-> <<>>, body |-> "none", reqDoneClosed |-> FALSE, checked |-> {},
     inFlight |-> FALSE, parked |-> FALSE, doneFirst |-> FALSE, unscheduled |-> FALSE,
     read |-> <<>>, res |-> <<>>,
     header |-> <<>>, method |-> "", zeroRTT |-> FALSE, wire |-> <<>>,
     send |-> [pc |-> "none", total |-> 0, left |-> 0, trailer |-> FALSE]]

\* The request streams a server handles, and one that handleRequestStream
\* has not been called for.
Served == 1..MaxServed
NewServed == [pc |-> "idle", len |-> 0, dataStream |-> FALSE, bodyRead |-> FALSE, log |-> <<>>]

\* --------------------------------------------------------------- initial
Init ==
    /\ role \in {"client", "server"}
    /\ settings \in [datagram : BOOLEAN, webtransport : BOOLEAN]
    /\ supportsDatagrams \in BOOLEAN
    /\ closeCalls = <<>>
    /\ resets = {}
    /\ uniSeen = [c \in UniContents |-> 0]
    /\ uniH = {}
    /\ peerStreams = [t \in 0..3 |-> NoStream]
    /\ ctlH = {}
    /\ latchCloses = 0
    /\ peerSettings = NilSettings
    /\ peerSettingsErr = "nil"
    /\ obsLog = {}
    /\ bidiSeen = [c \in BidiContents |-> 0]
    /\ bidiH = {}
    /\ acceptLoop = "idle"
    /\ reqChan = <<>>
    /\ handed = {}
    /\ accepted = {}
    /\ chans = [k \in Kinds |-> <<>>]
    /\ table = [k \in Kinds |-> [i \in SessionIDs |-> 0]]
    /\ cons = [k \in Kinds |-> [i \in ValidSessionIDs |-> [pc |-> "idle", ch |-> 0, n |-> 0, ctxDone |-> FALSE]]]
    /\ dgSeen = [i \in SessionIDs \cup {ReadErr} |-> 0]
    /\ dgH = [pc |-> "off", msg |-> [sid |-> ReadErr, n |-> 0], ch |-> 0]
    /\ rejects = {}
    /\ unitsSeen = 0
    /\ cl = [sid |-> 0, step |-> 0, n |-> 0]
    /\ \/ /\ newc = Constructed
          /\ sess = [dialed |-> TRUE, handshake |-> TRUE, gone |-> FALSE]
          /\ cli = [once |-> "done", handshakeErr |-> "nil", dials |-> 1]
       \/ /\ newc = IF role = "server" THEN NewConnCalled ELSE NotConstructed
          /\ sess = [dialed |-> role = "server", handshake |-> FALSE, gone |-> FALSE]
          /\ cli = [once |-> "idle", handshakeErr |-> "nil", dials |-> 0]
    /\ reqs = [r \in Requests |-> NewRequest]
    /\ srv = [conn |-> FALSE, maxField |-> 0, str |-> [i \in Served |-> NewServed]]
    /\ resp = [pc |-> "none"]
    /\ limits = {}

\* ------------------------------------------ peer unidirectional streams
UniHandler(h, pc) == [h EXCEPT !.pc = pc]
UniStep(h, h2) == uniH' = (uniH \ {h}) \cup {h2}
UniEnd(h) == uniH' = uniH \ {h}

\* handleIncomingUniStreams: AcceptUniStream returns the next peer stream and
\* a goroutine is started for it; the loop ends once the session is closed.
AcceptUniStream(contents, room) ==
    /\ ~Closed
    /\ room
    /\ \E c \in contents :
        /\ uniSeen' = [uniSeen EXCEPT ![c] = @ + 1]
        /\ unitsSeen' = unitsSeen + 1
        /\ uniH' = uniH \cup {[s |-> [tag |-> c.tag, sid |-> c.sid, n |-> uniSeen[c] + 1],
                               pc |-> "type", prev |-> FALSE, ch |-> 0]}
    /\ UNCHANGED <<connVars, closeCalls, resets, peerStreams, ctlVars, demuxVars, outUni>>

\* An unknown stream type treated as a connection error.
UniDefaultCloses(h) ==
    /\ CloseWithError(errorStreamCreationError, <<"unknown stream type", h.s.tag>>)
    /\ UniEnd(h)
    /\ UNCHANGED <<ctlH, resets>>

\* The default case of the switch: the stream's read side is reset.
UniDefault(h) ==
    /\ resets' = resets \cup {Cancel(h.s, "CancelRead", errorStreamCreationError)}
    /\ UniEnd(h)
    /\ UNCHANGED <<ctlH, closeCalls>>

\* The switch without the test of the local WebTransport setting.
UniSwitchUnchecked(h) ==
    IF h.s.tag = StreamTypeControl
    THEN /\ ctlH' = ctlH \cup {[s |-> h.s, pc |-> "read", frame |-> EOFControl]}
         /\ UniEnd(h)
         /\ UNCHANGED <<closeCalls, resets>>
    ELSE IF h.s.tag = StreamTypePush
    THEN /\ IF role = "server"
            THEN CloseWithError(errorStreamCreationError, <<"spurious push", h.s.tag>>)
            ELSE CloseWithError(errorIDError, <<"MAX_PUSH_ID = 0", h.s.tag>>)
         /\ UniEnd(h)
         /\ UNCHANGED <<ctlH, resets>>
    ELSE IF h.s.tag \in {StreamTypeQPACKEncoder, StreamTypeQPACKDecoder}
    THEN /\ UniEnd(h)
         /\ UNCHANGED <<ctlH, closeCalls, resets>>
    ELSE IF h.s.tag = StreamTypeWebTransportStream
    THEN /\ IF FALSE
            THEN /\ resets' = resets \cup {Cancel(h.s, "CancelRead", errorSettingsError)}
                 /\ UniEnd(h)
            ELSE IF h.s.sid = ReadErr
            THEN /\ resets' = resets \cup {Cancel(h.s, "CancelRead", errorGeneralProtocolError)}
                 /\ UniEnd(h)
            ELSE IF ~IsClientBidi(h.s.sid)
            THEN /\ resets' = resets \cup {Cancel(h.s, "CancelRead", errorIDError)}
                 /\ UniEnd(h)
            ELSE /\ UniStep(h, UniHandler(h, "lookup"))
                 /\ UNCHANGED resets
         /\ UNCHANGED <<ctlH, closeCalls>>
    ELSE UniDefault(h)

\* The switch on the stream type, a local step of the handler: it follows
\* the read of the type (tags of 4 and above) or the duplicate check.
\* CONTROL starts handleControlStream, PUSH closes the connection, the QPACK
\* streams are ignored, a WebTransport stream is validated up to the channel
\* lookup, any other type is reset.
UniSwitch(h) ==
    IF h.s.tag = StreamTypeControl
    THEN /\ ctlH' = ctlH \cup {[s |-> h.s, pc |-> "read", frame |-> EOFControl]}
         /\ UniEnd(h)
         /\ UNCHANGED <<closeCalls, resets>>
    ELSE IF h.s.tag = StreamTypePush
    THEN /\ IF role = "server"
            THEN CloseWithError(errorStreamCreationError, <<"spurious push", h.s.tag>>)
            ELSE CloseWithError(errorIDError, <<"MAX_PUSH_ID = 0", h.s.tag>>)
         /\ UniEnd(h)
         /\ UNCHANGED <<ctlH, resets>>
    ELSE IF h.s.tag \in {StreamTypeQPACKEncoder, StreamTypeQPACKDecoder}
    THEN /\ UniEnd(h)
         /\ UNCHANGED <<ctlH, closeCalls, resets>>
    ELSE IF h.s.tag = StreamTypeWebTransportStream
    THEN /\ IF ~settings.webtransport
            THEN /\ resets' = resets \cup {Cancel(h.s, "CancelRead", errorSettingsError)}
                 /\ UniEnd(h)
            ELSE IF h.s.sid = ReadErr
            THEN /\ resets' = resets \cup {Cancel(h.s, "CancelRead", errorGeneralProtocolError)}
                 /\ UniEnd(h)
            ELSE IF ~IsClientBidi(h.s.sid)
            THEN /\ resets' = resets \cup {Cancel(h.s, "CancelRead", errorIDError)}
                 /\ UniEnd(h)
            ELSE /\ UniStep(h, UniHandler(h, "lookup"))
                 /\ UNCHANGED resets
         /\ UNCHANGED <<ctlH, closeCalls>>
    ELSE UniDefault(h)

\* Reading the stream type: a failed read resets the stream, a tag below 4
\* goes through the peer stream table, any other tag goes to the switch.
UniReadType(h) ==
    /\ h.pc = "type"
    /\ IF h.s.tag = ReadErr
       THEN /\ resets' = resets \cup {Cancel(h.s, "CancelRead", errorGeneralProtocolError)}
            /\ UniEnd(h)
            /\ UNCHANGED <<ctlH, closeCalls>>
       ELSE IF h.s.tag < 4
       THEN /\ UniStep(h, UniHandler(h, "store"))
            /\ UNCHANGED <<ctlH, closeCalls, resets>>
       ELSE UniSwitch(h)
    /\ UNCHANGED <<connVars, unitsSeen, uniSeen, peerStreams, latchCloses, peerSettings,
                   peerSettingsErr, obsLog, demuxVars, outUni>>

\* The critical section under peerStreamsMutex, without the store.
UniStoreUnrecorded(h) ==
    /\ h.pc = "store"
    /\ UniStep(h, [h EXCEPT !.pc = "dup", !.prev = peerStreams[h.s.tag] # NoStream])
    /\ UNCHANGED <<connVars, unitsSeen, closeCalls, resets, uniSeen, peerStreams, ctlVars, demuxVars, outUni>>

\* The critical section under peerStreamsMutex: remember the previous stream
\* of the slot and store this one.
UniStore(h) ==
    /\ h.pc = "store"
    /\ peerStreams' = [peerStreams EXCEPT ![h.s.tag] = h.s]
    /\ UniStep(h, [h EXCEPT !.pc = "dup", !.prev = peerStreams[h.s.tag] # NoStream])
    /\ UNCHANGED <<connVars, unitsSeen, closeCalls, resets, uniSeen, ctlVars, demuxVars, outUni>>

\* A duplicate is reported but the stream goes to the switch all the same.
UniCheckDupNoReturn(h) ==
    /\ h.pc = "dup"
    /\ IF h.prev /\ h.s.tag # StreamTypeControl
       THEN /\ CloseWithError(errorStreamCreationError, <<"more than one", h.s.tag>>)
            /\ UniEnd(h)
            /\ UNCHANGED <<ctlH, resets>>
       ELSE UniSwitch(h)
    /\ UNCHANGED <<connVars, unitsSeen, uniSeen, peerStreams, latchCloses, peerSettings,
                   peerSettingsErr, obsLog, demuxVars, outUni>>

\* A populated slot: close the connection and return; else the switch.
UniCheckDup(h) ==
    /\ h.pc = "dup"
    /\ IF h.prev
       THEN /\ CloseWithError(errorStreamCreationError, <<"more than one", h.s.tag>>)
            /\ UniEnd(h)
            /\ UNCHANGED <<ctlH, resets>>
       ELSE UniSwitch(h)
    /\ UNCHANGED <<connVars, unitsSeen, uniSeen, peerStreams, latchCloses, peerSettings,
                   peerSettingsErr, obsLog, demuxVars, outUni>>

\* ------------------------------------------------------- control stream
CtlStep(c, c2) == ctlH' = (ctlH \ {c}) \cup {c2}

\* conn.peerSettings, conn.peerSettingsErr = readSettings(fr)
CtlReadSettings(c) ==
    /\ c.pc = "read"
    /\ \E f \in ControlFrames :
        /\ peerSettings' = ReadSettings(f).s
        /\ peerSettingsErr' = ReadSettings(f).err
        /\ CtlStep(c, [c EXCEPT !.pc = "latch", !.frame = f])
    /\ UNCHANGED <<connVars, unitsSeen, closeCalls, resets, uniVars, latchCloses, obsLog, demuxVars, outUni>>

\* close(conn.peerSettingsDone)
CtlCloseLatch(c) ==
    /\ c.pc = "latch"
    /\ latchCloses' = latchCloses + 1
    /\ CtlStep(c, [c EXCEPT !.pc = "check"])
    /\ UNCHANGED <<connVars, unitsSeen, closeCalls, resets, uniVars, peerSettings, peerSettingsErr, obsLog, demuxVars, outUni>>

\* A failed read is logged only: the connection stays open.
CtlCheckErrNoClose(c) ==
    /\ c.pc = "check"
    /\ CtlStep(c, [c EXCEPT !.pc = IF peerSettingsErr # "nil" THEN "done" ELSE "datagram"])
    /\ UNCHANGED <<connVars, unitsSeen, closeCalls, resets, uniVars, latchCloses, peerSettings,
                   peerSettingsErr, obsLog, demuxVars, outUni>>

\* if conn.peerSettingsErr != nil: close with MISSING_SETTINGS and return.
CtlCheckErr(c) ==
    /\ c.pc = "check"
    /\ IF peerSettingsErr # "nil"
       THEN /\ CloseWithError(errorMissingSettings, <<peerSettingsErr, 0>>)
            /\ CtlStep(c, [c EXCEPT !.pc = "done"])
       ELSE /\ CtlStep(c, [c EXCEPT !.pc = "datagram"])
            /\ UNCHANGED closeCalls
    /\ UNCHANGED <<connVars, unitsSeen, resets, uniVars, latchCloses, peerSettings, peerSettingsErr, obsLog, demuxVars, outUni>>

\* The mismatch is stored as the settings error but the connection is left
\* open.
CtlCheckDatagramNoClose(c) ==
    /\ c.pc = "datagram"
    /\ CtlStep(c, [c EXCEPT !.pc = IF peerSettings.datagram /\ ~supportsDatagrams
                                   THEN "seterr" ELSE "done"])
    /\ UNCHANGED <<connVars, unitsSeen, closeCalls, resets, uniVars, latchCloses, peerSettings, peerSettingsErr, obsLog, demuxVars, outUni>>

\* The peer advertises H3_DATAGRAM and the QUIC session has no datagram
\* support: close with SETTINGS_ERROR.
CtlCheckDatagram(c) ==
    /\ c.pc = "datagram"
    /\ IF peerSettings.datagram /\ ~supportsDatagrams
       THEN /\ CloseWithError(errorSettingsError, <<"missing QUIC Datagram support", 0>>)
            /\ CtlStep(c, [c EXCEPT !.pc = "seterr"])
       ELSE /\ CtlStep(c, [c EXCEPT !.pc = "done"])
            /\ UNCHANGED closeCalls
    /\ UNCHANGED <<connVars, unitsSeen, resets, uniVars, latchCloses, peerSettings, peerSettingsErr, obsLog, demuxVars, outUni>>

\* conn.peerSettingsErr = err, after the latch has been released.
CtlStoreErr(c) ==
    /\ c.pc = "seterr"
    /\ peerSettingsErr' = "missing QUIC Datagram support"
    /\ CtlStep(c, [c EXCEPT !.pc = "done"])
    /\ UNCHANGED <<connVars, unitsSeen, closeCalls, resets, uniVars, latchCloses, peerSettings, obsLog, demuxVars, outUni>>

\* PeerSettings / PeerSettingsSync taking the peerSettingsDone case of the
\* select: the pair (conn.peerSettings, conn.peerSettingsErr) is returned.
PeerSettings ==
    /\ latchCloses > 0
    /\ <<peerSettings, peerSettingsErr>> \notin obsLog
    /\ obsLog' = obsLog \cup {<<peerSettings, peerSettingsErr>>}
    /\ UNCHANGED <<connVars, unitsSeen, closeCalls, resets, uniVars, ctlH, latchCloses, peerSettings, peerSettingsErr, demuxVars, outUni>>

\* ------------------------------------------- session-id demultiplexer
NewChan(sid) == [sid |-> sid, buf |-> <<>>, enq |-> <<>>, deq |-> <<>>]

\* incomingStreamsChan / incomingUniStreamsChan / incomingDatagramsChan: the
\* channel the table holds for the session id, made on first touch.
ChanOf(kind, sid) ==
    IF table[kind][sid] # 0 THEN table[kind][sid] ELSE Len(chans[kind]) + 1

IncomingChan(kind, sid) ==
    /\ table' = [table EXCEPT ![kind][sid] = ChanOf(kind, sid)]
    /\ chans' = IF table[kind][sid] # 0 THEN chans
                ELSE [chans EXCEPT ![kind] = Append(@, NewChan(sid))]

BufLen(kind, ch) == Len(chans[kind][ch].buf)

\* A send on the channel; enq is the history of the sends.
ChanSend(kind, ch, unit) ==
    chans' = [chans EXCEPT ![kind][ch].buf = Append(@, unit),
                           ![kind][ch].enq = Append(@, unit)]

\* A receive from the channel by a caller of session id i; deq is the
\* history of the receives.
ChanRecv(kind, ch, i) ==
    chans' = [chans EXCEPT ![kind][ch].buf = Tail(@),
                           ![kind][ch].deq = Append(@, <<Head(chans[kind][ch].buf), i>>)]

\* conn.incomingUniStreamsChan(sessionID), evaluated when the select is entered.
UniLookup(h) ==
    /\ h.pc = "lookup"
    /\ IncomingChan("uni", h.s.sid)
    /\ UniStep(h, [h EXCEPT !.pc = "send", !.ch = ChanOf("uni", h.s.sid)])
    /\ UNCHANGED <<connVars, unitsSeen, closeCalls, resets, uniSeen, peerStreams, ctlVars, rejects, outUni>>

\* select { case ch <- str: default: CancelRead(BUFFERED_STREAM_REJECTED) }
UniSend(h) ==
    /\ h.pc = "send"
    /\ IF BufLen("uni", h.ch) < maxBufferedStreams
       THEN /\ ChanSend("uni", h.ch, h.s)
            /\ UNCHANGED <<resets, rejects>>
       ELSE /\ resets' = resets \cup
                    {Cancel(h.s, "CancelRead", errorWebTransportBufferedStreamRejected)}
            /\ rejects' = rejects \cup {<<h.s, BufLen("uni", h.ch)>>}
            /\ UNCHANGED chans
    /\ UniEnd(h)
    /\ UNCHANGED <<connVars, unitsSeen, closeCalls, uniSeen, peerStreams, ctlVars, table, outUni>>

\* ------------------------------------------ peer bidirectional streams
BidiStep(h, h2) == bidiH' = (bidiH \ {h}) \cup {h2}
BidiEnd(h) == bidiH' = bidiH \ {h}

\* incomingStreamsOnce.Do(go handleIncomingStreams), from AcceptRequestStream
\* on a server (OpenRequestStream does the same on a client).
StartAcceptLoop ==
    /\ role = "server"
    /\ newc.pc = "ready"
    /\ acceptLoop = "idle"
    /\ acceptLoop' = "running"
    /\ UNCHANGED <<connVars, unitsSeen, closeCalls, resets, bidiSeen, bidiH, reqChan, handed, accepted,
                   demuxVars, outBidi>>

\* handleIncomingStreams: AcceptStream returns the next peer stream and a
\* goroutine is started for it.
AcceptStream(contents, room) ==
    /\ acceptLoop = "running"
    /\ ~Closed
    /\ room
    /\ \E c \in contents :
        /\ bidiSeen' = [bidiSeen EXCEPT ![c] = @ + 1]
        /\ unitsSeen' = unitsSeen + 1
        /\ bidiH' = bidiH \cup {[s |-> [frames |-> c, n |-> bidiSeen[c] + 1],
                                 pc |-> "next", i |-> 1, ch |-> 0]}
    /\ UNCHANGED <<connVars, closeCalls, resets, acceptLoop, reqChan, handed, accepted,
                   demuxVars, outBidi>>

\* FrameReader.Next: the header of the next frame, an error at the end of
\* the stream.
FrameAt(h) == IF h.i <= Len(h.s.frames) THEN h.s.frames[h.i] ELSE EOFFrame

\* handleIncomingStream that treats a failed read of the frame header as a
\* request.
BidiClassifyHandsOverEOF(h) ==
    /\ h.pc = "next"
    /\ LET fr == FrameAt(h) IN
       IF fr.t \in {"EOF", "HEADERS"}
       THEN /\ BidiStep(h, [h EXCEPT !.pc = "handoff"])
            /\ UNCHANGED <<resets, closeCalls>>
       ELSE IF fr.t = "WEBTRANSPORT_STREAM"
       THEN IF ~settings.webtransport
            THEN /\ resets' = resets \cup {Cancel(h.s, "CancelRead", errorSettingsError),
                                           Cancel(h.s, "CancelWrite", errorSettingsError)}
                 /\ BidiEnd(h)
                 /\ UNCHANGED closeCalls
            ELSE \* an invalid session id resets the stream, and the code goes on
                 \* to the select all the same
                 /\ resets' = IF IsClientBidi(fr.sid) THEN resets
                              ELSE resets \cup {Cancel(h.s, "CancelRead", errorIDError),
                                                Cancel(h.s, "CancelWrite", errorIDError)}
                 /\ BidiStep(h, [h EXCEPT !.pc = "lookup"])
                 /\ UNCHANGED closeCalls
       ELSE IF fr.t = "DATA"
       THEN /\ CloseWithError(errorFrameUnexpected, <<"unexpected frame type", 0>>)
            /\ BidiEnd(h)
            /\ UNCHANGED resets
       ELSE \* default: the frame is skipped
            /\ BidiStep(h, [h EXCEPT !.i = @ + 1])
            /\ UNCHANGED <<resets, closeCalls>>
    /\ UNCHANGED <<connVars, unitsSeen, bidiSeen, acceptLoop, reqChan, handed, accepted, demuxVars, outBidi>>

\* One turn of the loop of handleIncomingStream, up to the first operation
\* on shared state: fr.Next() and the switch on fr.Type.
BidiClassify(h) ==
    /\ h.pc = "next"
    /\ LET fr == FrameAt(h) IN
       IF fr.t = "EOF"
       THEN /\ resets' = resets \cup {Cancel(h.s, "CancelWrite", errorRequestIncomplete)}
            /\ BidiEnd(h)
            /\ UNCHANGED closeCalls
       ELSE IF fr.t = "HEADERS"
       THEN /\ BidiStep(h, [h EXCEPT !.pc = "handoff"])
            /\ UNCHANGED <<resets, closeCalls>>
       ELSE IF fr.t = "WEBTRANSPORT_STREAM"
       THEN IF ~settings.webtransport
            THEN /\ resets' = resets \cup {Cancel(h.s, "CancelRead", errorSettingsError),
                                           Cancel(h.s, "CancelWrite", errorSettingsError)}
                 /\ BidiEnd(h)
                 /\ UNCHANGED closeCalls
            ELSE \* an invalid session id resets the stream, and the code goes on
                 \* to the select all the same
                 /\ resets' = IF IsClientBidi(fr.sid) THEN resets
                              ELSE resets \cup {Cancel(h.s, "CancelRead", errorIDError),
                                                Cancel(h.s, "CancelWrite", errorIDError)}
                 /\ BidiStep(h, [h EXCEPT !.pc = "lookup"])
                 /\ UNCHANGED closeCalls
       ELSE IF fr.t = "DATA"
       THEN /\ CloseWithError(errorFrameUnexpected, <<"unexpected frame type", 0>>)
            /\ BidiEnd(h)
            /\ UNCHANGED resets
       ELSE \* default: the frame is skipped
            /\ BidiStep(h, [h EXCEPT !.i = @ + 1])
            /\ UNCHANGED <<resets, closeCalls>>
    /\ UNCHANGED <<connVars, unitsSeen, bidiSeen, acceptLoop, reqChan, handed, accepted, demuxVars, outBidi>>

\* conn.incomingRequestStreams <- fr, a send that blocks while the channel is full.
BidiHandoff(h) ==
    /\ h.pc = "handoff"
    /\ Len(reqChan) < maxBufferedStreams
    /\ reqChan' = Append(reqChan, h.s)
    /\ handed' = handed \cup {h.s}
    /\ BidiEnd(h)
    /\ UNCHANGED <<connVars, unitsSeen, closeCalls, resets, bidiSeen, acceptLoop, accepted,
                   demuxVars, outBidi>>

\* handleIncomingStreams: AcceptStream fails once the session is closed; the
\* error is stored in incomingStreamsErr and the loop is left.
AcceptStreamFails ==
    /\ acceptLoop = "running"
    /\ Closed
    /\ acceptLoop' = "draining"
    /\ UNCHANGED <<connVars, unitsSeen, closeCalls, resets, bidiSeen, bidiH, reqChan, handed, accepted,
                   demuxVars, outBidi>>

\* handleIncomingStreams after the loop, with the wait for the handlers left out.
CloseRequestChannelEarly ==
    /\ acceptLoop = "draining"
    /\ acceptLoop' = "closed"
    /\ UNCHANGED <<connVars, unitsSeen, closeCalls, resets, bidiSeen, bidiH, reqChan, handed, accepted,
                   demuxVars, outBidi>>

\* handleIncomingStreams after the loop: wg.Wait() returns when every
\* handleIncomingStream goroutine has ended, then close(incomingRequestStreams).
CloseRequestChannel ==
    /\ acceptLoop = "draining"
    /\ bidiH = {}
    /\ acceptLoop' = "closed"
    /\ UNCHANGED <<connVars, unitsSeen, closeCalls, resets, bidiSeen, bidiH, reqChan, handed, accepted,
                   demuxVars, outBidi>>

\* The cases of the select in AcceptRequestStream: a buffered stream, the
\* closed and empty channel, the caller's context, the session's context.
AcceptCases == {"stream", "closed", "ctx", "session"}
Drained == acceptLoop = "closed" /\ reqChan = <<>>
\* The results are kept for the calls made once AcceptStream has failed.
Returned(res) ==
    IF acceptLoop \in {"draining", "closed"}
    THEN accepted \cup {[res |-> res, drained |-> Drained]}
    ELSE accepted

\* AcceptRequestStream on a server: the select takes one of its ready cases.
\* A receive from the closed channel returns incomingStreamsErr.
AcceptRequestStream ==
    /\ role = "server"
    /\ acceptLoop # "idle"
    /\ \E case \in AcceptCases :
        /\ CASE case = "stream" -> reqChan # <<>>
             [] case = "closed" -> Drained
             [] case = "ctx" -> TRUE
             [] case = "session" -> Closed
        /\ reqChan' = IF case = "stream" THEN Tail(reqChan) ELSE reqChan
        /\ accepted' = Returned(IF case = "stream" THEN "stream"
                                ELSE IF case = "closed" THEN "incomingStreamsErr"
                                ELSE IF case = "ctx" THEN "ctx.Err" ELSE "session.Context.Err")
    /\ UNCHANGED <<connVars, unitsSeen, closeCalls, resets, bidiSeen, bidiH, acceptLoop, handed,
                   demuxVars, outBidi>>

\* The lookup with the session id of the frame ignored: every stream goes to
\* the channel of session 0.
BidiLookupOneSession(h) ==
    /\ h.pc = "lookup"
    /\ IncomingChan("bidi", 0)
    /\ BidiStep(h, [h EXCEPT !.pc = "send", !.ch = ChanOf("bidi", 0)])
    /\ UNCHANGED <<connVars, unitsSeen, closeCalls, resets, bidiSeen, acceptLoop, reqChan, handed, accepted,
                   rejects, outBidi>>

\* conn.incomingStreamsChan(sessionID), evaluated when the select is entered.
BidiLookup(h) ==
    /\ h.pc = "lookup"
    /\ IncomingChan("bidi", FrameAt(h).sid)
    /\ BidiStep(h, [h EXCEPT !.pc = "send", !.ch = ChanOf("bidi", FrameAt(h).sid)])
    /\ UNCHANGED <<connVars, unitsSeen, closeCalls, resets, bidiSeen, acceptLoop, reqChan, handed, accepted,
                   rejects, outBidi>>

\* The select without its default case: the send goes through whatever the
\* length of the channel.
BidiSendUnbounded(h) ==
    /\ h.pc = "send"
    /\ ChanSend("bidi", h.ch, h.s)
    /\ BidiEnd(h)
    /\ UNCHANGED <<connVars, unitsSeen, closeCalls, resets, rejects, bidiSeen, acceptLoop, reqChan,
                   handed, accepted, table, outBidi>>

\* select { case ch <- str: default: CancelRead, CancelWrite(BUFFERED_STREAM_REJECTED) }
BidiSend(h) ==
    /\ h.pc = "send"
    /\ IF BufLen("bidi", h.ch) < maxBufferedStreams
       THEN /\ ChanSend("bidi", h.ch, h.s)
            /\ UNCHANGED <<resets, rejects>>
       ELSE /\ resets' = resets \cup
                    {Cancel(h.s, "CancelRead", errorWebTransportBufferedStreamRejected),
                     Cancel(h.s, "CancelWrite", errorWebTransportBufferedStreamRejected)}
            /\ rejects' = rejects \cup {<<h.s, BufLen("bidi", h.ch)>>}
            /\ UNCHANGED chans
    /\ BidiEnd(h)
    /\ UNCHANGED <<connVars, unitsSeen, closeCalls, bidiSeen, acceptLoop, reqChan, handed, accepted, table, outBidi>>

\* ------------------------------------------------------------ datagrams
\* handleIncomingDatagrams: ReceiveMessage, the session id varint and its
\* validation; a datagram that fails either is dropped.
DgReceive(ids, room) ==
    /\ dgH.pc = "recv"
    /\ ~Closed
    /\ room
    /\ \E i \in ids :
        /\ dgSeen' = [dgSeen EXCEPT ![i] = @ + 1]
        /\ unitsSeen' = unitsSeen + 1
        /\ dgH' = IF i = ReadErr \/ ~IsClientBidi(i)
                  THEN dgH
                  ELSE [dgH EXCEPT !.pc = "lookup", !.msg = [sid |-> i, n |-> dgSeen[i] + 1]]
    /\ UNCHANGED <<connVars, closeCalls, resets, demuxVars, cons, cl, outSess>>

\* conn.incomingDatagramsChan(sessionID), evaluated when the select is entered.
DgLookup ==
    /\ dgH.pc = "lookup"
    /\ IncomingChan("dgram", dgH.msg.sid)
    /\ dgH' = [dgH EXCEPT !.pc = "send", !.ch = ChanOf("dgram", dgH.msg.sid)]
    /\ UNCHANGED <<connVars, unitsSeen, closeCalls, resets, rejects, dgSeen, cons, cl, outSess>>

\* select { case ch <- msg: case <-ctx.Done(): return }: the send blocks
\* while the channel is full.
DgSend ==
    /\ dgH.pc = "send"
    /\ \/ /\ BufLen("dgram", dgH.ch) < maxBufferedDatagrams
          /\ ChanSend("dgram", dgH.ch, dgH.msg)
          /\ dgH' = [dgH EXCEPT !.pc = "recv"]
       \/ /\ Closed
          /\ dgH' = [dgH EXCEPT !.pc = "exit"]
          /\ UNCHANGED chans
    /\ UNCHANGED <<connVars, unitsSeen, closeCalls, resets, table, rejects, dgSeen, cons, cl, outSess>>

\* ------------------------------------- accept / read calls of a session
\* acceptStream, acceptUniStream and readDatagram for session id i: the
\* channel is looked up when the select is entered; readDatagram first
\* starts handleIncomingDatagrams (incomingDatagramsOnce).
AcceptLookup(kind, i, room) ==
    /\ cons[kind][i].pc = "idle"
    /\ room
    /\ IncomingChan(kind, i)
    /\ cons' = [cons EXCEPT ![kind][i] = [pc |-> "recv", ch |-> ChanOf(kind, i), n |-> @.n + 1,
                                           ctxDone |-> FALSE]]
    /\ dgH' = IF kind = "dgram" /\ dgH.pc = "off" THEN [dgH EXCEPT !.pc = "recv"] ELSE dgH
    /\ UNCHANGED <<connVars, unitsSeen, closeCalls, resets, rejects, dgSeen, cl, outSess>>

\* The receive of the select: the call returns the unit at the head of the channel.
AcceptRecv(kind, i) ==
    /\ cons[kind][i].pc = "recv"
    /\ BufLen(kind, cons[kind][i].ch) > 0
    /\ ChanRecv(kind, cons[kind][i].ch, i)
    /\ cons' = [cons EXCEPT ![kind][i] = [@ EXCEPT !.pc = "idle", !.ch = 0, !.ctxDone = FALSE]]
    /\ UNCHANGED <<connVars, unitsSeen, closeCalls, resets, table, rejects, dgVars, cl, outSess>>

\* The context passed to the call is cancelled while the call waits in its select.
AcceptCtxCancel(kind, i) ==
    /\ cons[kind][i].pc = "recv"
    /\ ~cons[kind][i].ctxDone
    /\ cons' = [cons EXCEPT ![kind][i].ctxDone = TRUE]
    /\ UNCHANGED <<connVars, unitsSeen, closeCalls, resets, chans, table, rejects, dgVars, cl, outSess>>

\* The cases of the select next to the receive: session.Context().Done() in
\* all three calls, ctx.Done() in readDatagram only.
SelectDone(kind, i) ==
    IF kind = "dgram" THEN Closed \/ cons[kind][i].ctxDone ELSE Closed

\* The call returns the error of the context whose case the select took.
AcceptReturnErr(kind, i) ==
    /\ cons[kind][i].pc = "recv"
    /\ SelectDone(kind, i)
    /\ cons' = [cons EXCEPT ![kind][i] = [@ EXCEPT !.pc = "idle", !.ch = 0, !.ctxDone = FALSE]]
    /\ UNCHANGED <<connVars, unitsSeen, closeCalls, resets, chans, table, rejects, dgVars, cl, outSess>>

\* The accept / read calls made so far.
AcceptsTotal ==
    cons["bidi"][0].n + cons["bidi"][4].n + cons["uni"][0].n + cons["uni"][4].n
    + cons["dgram"][0].n + cons["dgram"][4].n

\* -------------------------------------------------------------- cleanup
CleanupKind(step) == IF step = 0 THEN "bidi" ELSE IF step = 1 THEN "uni" ELSE "dgram"

\* cleanup that empties the table of its critical section.
CleanupClearsTable(step) ==
    /\ cl.step = step
    /\ \E i \in ValidSessionIDs :
        /\ step = 0 \/ i = cl.sid
        /\ step = 0 => cl.n < MaxCleanups
        /\ table' = [table EXCEPT ![CleanupKind(step)] = [j \in SessionIDs |-> 0]]
        /\ cl' = [sid |-> i, step |-> (step + 1) % 3,
                  n |-> IF step = 0 THEN cl.n + 1 ELSE cl.n]
    /\ UNCHANGED <<connVars, unitsSeen, closeCalls, resets, chans, rejects, cons, dgVars, outSess>>

\* cleanup(sessionID): three critical sections, one per table.
Cleanup(step) ==
    /\ cl.step = step
    /\ \E i \in ValidSessionIDs :
        /\ step = 0 \/ i = cl.sid
        /\ step = 0 => cl.n < MaxCleanups
        /\ table' = [table EXCEPT ![CleanupKind(step)][i] = 0]
        /\ cl' = [sid |-> i, step |-> (step + 1) % 3,
                  n |-> IF step = 0 THEN cl.n + 1 ELSE cl.n]
    /\ UNCHANGED <<connVars, unitsSeen, closeCalls, resets, chans, rejects, cons, dgVars, outSess>>

\* ------------------------------------------------- the server's requests
\* What an action of the request dispatcher leaves alone.
outServer == <<role, settings, supportsDatagrams, closeCalls, resets, uniVars, ctlVars,
               bidiVars, demuxVars, cons, dgVars, unitsSeen, cl, clientVars, resp, limits>>

\* conn.maxHeaderBytes: SETTINGS_MAX_FIELD_SECTION_SIZE of the local
\* settings, the default when it is absent or zero.
maxHeaderBytes ==
    IF srv.maxField > 0 THEN srv.maxField ELSE defaultMaxFieldSectionSize

\* The server's connection is set up with its settings.
ServerConn(max) ==
    /\ role = "server"
    /\ ~srv.conn
    /\ srv' = [srv EXCEPT !.conn = TRUE, !.maxField = max]
    /\ UNCHANGED outServer

\* What the computation of a header limit leaves alone.
outLimits == <<role, settings, supportsDatagrams, closeCalls, resets, uniVars, ctlVars,
               bidiVars, demuxVars, cons, dgVars, unitsSeen, cl, clientVars, srv, resp>>

\* conn.maxHeaderBytes() is called: the limit for incoming headers.
MaxHeaderBytes ==
    /\ srv.conn
    /\ limits' = limits \cup {[side |-> "local", pending |-> FALSE, value |-> maxHeaderBytes]}
    /\ UNCHANGED outLimits

\* conn.peerMaxHeaderBytes() is called: the limit for outgoing headers, from
\* what PeerSettings() returns.  The select of PeerSettings() takes the latch
\* when it is released, the session's context when the session is closed,
\* one of the two when both are ready, and its default case, with nil
\* settings, otherwise.
PeerMaxHeaderBytes(branch) ==
    /\ branch = "ready" => latchCloses > 0
    /\ branch = "gone" => Closed
    /\ branch = "default" => latchCloses = 0 /\ ~Closed
    /\ LET peer == IF branch = "ready" THEN peerSettings ELSE NilSettings
       IN  limits' = limits \cup
               {[side |-> "peer", pending |-> latchCloses = 0,
                 value |-> IF peer.hasMax /\ peer.max > 0 THEN peer.max
                           ELSE DefaultMaxHeaderBytes]}
    /\ UNCHANGED outLimits

SetServed(i, rec) == srv' = [srv EXCEPT !.str[i] = rec]
ServedEvent(rec, ev, code) == [rec EXCEPT !.log = Append(@, [ev |-> ev, code |-> code])]

\* handleRequestStream is called for an accepted request stream whose
\* HEADERS frame has the given length.  The streams are numbered in the
\* order in which they are handled.
HandleRequestStream(i, len) ==
    /\ srv.conn
    /\ srv.str[i].pc = "idle"
    /\ IF i = 1 THEN TRUE ELSE srv.str[i - 1].pc # "idle"
    /\ SetServed(i, [srv.str[i] EXCEPT !.pc = "read", !.len = len])
    /\ UNCHANGED outServer

\* The HEADERS frame of the request is read without a check of its length.
ServeReadHeadersUnchecked(i) ==
    /\ srv.str[i].pc = "read"
    /\ SetServed(i, [ServedEvent(srv.str[i], "handler", 0) EXCEPT !.pc = "handler"])
    /\ UNCHANGED outServer

\* The HEADERS frame of the request is read: a frame longer than
\* maxHeaderBytes resets the stream with H3_FRAME_ERROR and the handler is
\* not called; otherwise the handler is called with the request.
ServeReadHeaders(i) ==
    /\ srv.str[i].pc = "read"
    /\ SetServed(i, IF srv.str[i].len > maxHeaderBytes
                    THEN [ServedEvent(srv.str[i], "CancelWrite", errorFrameError)
                            EXCEPT !.pc = "done"]
                    ELSE [ServedEvent(srv.str[i], "handler", 0) EXCEPT !.pc = "handler"])
    /\ UNCHANGED outServer

\* The handler takes the raw stream: DataStream().
HandlerDataStream(i) ==
    /\ srv.str[i].pc = "handler"
    /\ ~srv.str[i].dataStream
    /\ SetServed(i, [srv.str[i] EXCEPT !.dataStream = TRUE])
    /\ UNCHANGED outServer

\* The handler reads the body of the request to its end.
HandlerReadBody(i) ==
    /\ srv.str[i].pc = "handler"
    /\ ~srv.str[i].bodyRead
    /\ SetServed(i, [srv.str[i] EXCEPT !.bodyRead = TRUE])
    /\ UNCHANGED outServer

\* The handler returns.
HandlerReturn(i) ==
    /\ srv.str[i].pc = "handler"
    /\ SetServed(i, [ServedEvent(srv.str[i], "returned", 0) EXCEPT !.pc = "returned"])
    /\ UNCHANGED outServer

\* After the handler: CancelRead only when the body of the request has not
\* been read.
ServeFinishUnlessRead(i) ==
    /\ srv.str[i].pc = "returned"
    /\ SetServed(i, IF srv.str[i].dataStream \/ srv.str[i].bodyRead
                    THEN [srv.str[i] EXCEPT !.pc = "done"]
                    ELSE [ServedEvent(srv.str[i], "CancelRead", errorNoError)
                            EXCEPT !.pc = "done"])
    /\ UNCHANGED outServer

\* After the handler: str.CancelRead(errorNoError) unless the handler has
\* taken the raw stream.
ServeFinish(i) ==
    /\ srv.str[i].pc = "returned"
    /\ SetServed(i, IF srv.str[i].dataStream
                    THEN [srv.str[i] EXCEPT !.pc = "done"]
                    ELSE [ServedEvent(srv.str[i], "CancelRead", errorNoError)
                            EXCEPT !.pc = "done"])
    /\ UNCHANGED outServer

\* ------------------------------------------------------ the QUIC session
\* HandshakeComplete().Done() is closed: the RoundTrip calls waiting in their
\* select take the handshake case.
HandshakeDone ==
    [r \in Requests |->
        IF reqs[r].pc = "waiting" THEN [reqs[r] EXCEPT !.pc = "open"] ELSE reqs[r]]

\* The peer or the transport closes the session; the context returned by
\* HandshakeComplete() is done from then on.
SessionGone ==
    /\ sess.dialed
    /\ ~sess.gone
    /\ sess' = [sess EXCEPT !.gone = TRUE, !.handshake = TRUE]
    /\ reqs' = HandshakeDone
    /\ UNCHANGED <<role, closeCalls, acceptLoop, newc, cli, outClient>>

\* The handshake completes.
HandshakeComplete ==
    /\ sess.dialed
    /\ ~sess.handshake
    /\ ~Closed
    /\ sess' = [sess EXCEPT !.handshake = TRUE]
    /\ reqs' = HandshakeDone
    /\ UNCHANGED <<role, closeCalls, acceptLoop, newc, cli, outClient>>

\* ----------------------------------------------- connection construction
\* newConn returning the connection without having written on the control
\* stream.
NewConnReturnsUnwritten ==
    /\ newc.pc = "start"
    /\ newc' = [newc EXCEPT !.pc = IF Closed THEN "failed" ELSE "ready"]
    /\ UNCHANGED <<role, closeCalls, acceptLoop, sess, cli, reqs, outClient>>

\* newConn: session.OpenUniStream(); an error is returned to the caller.
NewConnOpenUniStream ==
    /\ newc.pc = "start"
    /\ newc' = [newc EXCEPT !.pc = IF Closed THEN "failed" ELSE "opened"]
    /\ UNCHANGED <<role, closeCalls, acceptLoop, sess, cli, reqs, outClient>>

\* A write on the control stream: it reaches the stream unless the session
\* is closed; newConn ignores the error.
ControlWrite(what) == IF Closed THEN newc.out ELSE Append(newc.out, what)

\* newConn: quicvarint.Write(w, StreamTypeControl).
NewConnWriteType ==
    /\ newc.pc = "opened"
    /\ newc' = [pc |-> "typed", out |-> ControlWrite("CONTROL")]
    /\ UNCHANGED <<role, closeCalls, acceptLoop, sess, cli, reqs, outClient>>

\* newConn: conn.settings.writeFrame(w), then the acceptor of peer
\* unidirectional streams is started and the connection returned.
NewConnWriteSettings ==
    /\ newc.pc = "typed"
    /\ newc' = [pc |-> "ready", out |-> ControlWrite("SETTINGS")]
    /\ UNCHANGED <<role, closeCalls, acceptLoop, sess, cli, reqs, outClient>>

\* ------------------------------------------------------ client.RoundTrip
SetReq(r, rec) == reqs' = [reqs EXCEPT ![r] = rec]
Return(rec, err) == [rec EXCEPT !.pc = "returned", !.err = err]
StreamCall(rec, by, op, code) ==
    [rec EXCEPT !.calls = Append(@, [by |-> by, op |-> op, code |-> code])]
\* close(reqDone) that leaves an observer waiting in its select where it is.
CloseReqDoneNoWake(rec) == [rec EXCEPT !.reqDone = @ + 1]

\* close(reqDone): an observer waiting in its select takes the reqDone case.
CloseReqDone(rec) ==
    [rec EXCEPT !.reqDone = @ + 1, !.obs = IF @ = "parked" THEN "exit" ELSE @]

\* The authority check made after dialOnce has been used up.
RoundTripChecksLate(r, wrongAuthority, method) ==
    /\ role = "client"
    /\ reqs[r].pc = "idle"
    /\ IF r = 1 THEN TRUE ELSE reqs[r - 1].pc # "idle"
    /\ SetReq(r, IF wrongAuthority THEN Return([reqs[r] EXCEPT !.method = method], "wrong client")
                 ELSE [reqs[r] EXCEPT !.pc = "once", !.method = method])
    /\ cli' = IF wrongAuthority /\ cli.once = "idle"
              THEN [cli EXCEPT !.once = "done", !.handshakeErr = "dial error"] ELSE cli
    /\ UNCHANGED <<role, closeCalls, acceptLoop, sess, newc, outClient>>

\* RoundTrip is called with a request of the given method: the authority
\* check.  The calls are numbered in the order in which they start.
RoundTrip(r, wrongAuthority, method) ==
    /\ role = "client"
    /\ reqs[r].pc = "idle"
    /\ IF r = 1 THEN TRUE ELSE reqs[r - 1].pc # "idle"
    /\ SetReq(r, IF wrongAuthority THEN Return([reqs[r] EXCEPT !.method = method], "wrong client")
                 ELSE [reqs[r] EXCEPT !.pc = "once", !.method = method])
    /\ UNCHANGED <<role, closeCalls, acceptLoop, sess, newc, cli, outClient>>

Methods == {MethodGet0RTT, MethodGet}

\* dialOnce.Do and the test of the method, the method of a 0-RTT request
\* left as it is.
DialOnceKeepsMethod(r) ==
    /\ reqs[r].pc = "once"
    /\ cli.once # "running"
    /\ IF cli.once = "idle"
       THEN /\ cli' = [cli EXCEPT !.once = "running"]
            /\ SetReq(r, [reqs[r] EXCEPT !.pc = "dial"])
       ELSE /\ SetReq(r, IF cli.handshakeErr # "nil" THEN Return(reqs[r], cli.handshakeErr)
                         ELSE IF reqs[r].method = MethodGet0RTT
                         THEN [reqs[r] EXCEPT !.pc = "open", !.zeroRTT = TRUE]
                         ELSE [reqs[r] EXCEPT !.pc = "wait"])
            /\ UNCHANGED cli
    /\ UNCHANGED <<role, closeCalls, acceptLoop, sess, newc, outClient>>

\* A dial guard that dials again after a failed dial.
DialOnceRetries(r) ==
    /\ reqs[r].pc = "once"
    /\ cli.once # "running"
    /\ IF cli.once = "idle" \/ (cli.handshakeErr # "nil" /\ cli.dials < MaxRequests)
       THEN /\ cli' = [cli EXCEPT !.once = "running"]
            /\ SetReq(r, [reqs[r] EXCEPT !.pc = "dial"])
       ELSE /\ SetReq(r, IF cli.handshakeErr # "nil" THEN Return(reqs[r], cli.handshakeErr)
                         ELSE IF reqs[r].method = MethodGet0RTT
                         THEN [reqs[r] EXCEPT !.pc = "open", !.method = MethodGet,
                                              !.zeroRTT = TRUE]
                         ELSE [reqs[r] EXCEPT !.pc = "wait"])
            /\ UNCHANGED cli
    /\ UNCHANGED <<role, closeCalls, acceptLoop, sess, newc, outClient>>

\* dialOnce.Do: the first caller runs dial, the others wait until it has
\* returned; then handshakeErr is checked.  A request whose method is
\* MethodGet0RTT has it set to GET and does not wait for the handshake.
DialOnce(r) ==
    /\ reqs[r].pc = "once"
    /\ cli.once # "running"
    /\ IF cli.once = "idle"
       THEN /\ cli' = [cli EXCEPT !.once = "running"]
            /\ SetReq(r, [reqs[r] EXCEPT !.pc = "dial"])
       ELSE /\ SetReq(r, IF cli.handshakeErr # "nil" THEN Return(reqs[r], cli.handshakeErr)
                         ELSE IF reqs[r].method = MethodGet0RTT
                         THEN [reqs[r] EXCEPT !.pc = "open", !.method = MethodGet,
                                              !.zeroRTT = TRUE]
                         ELSE [reqs[r] EXCEPT !.pc = "wait"])
            /\ UNCHANGED cli
    /\ UNCHANGED <<role, closeCalls, acceptLoop, sess, newc, outClient>>

\* dial: the dialer returns a session, for which Open calls newConn, or an
\* error, which ends dialOnce.
Dial(r, ok) ==
    /\ reqs[r].pc = "dial"
    /\ IF ok
       THEN /\ sess' = [sess EXCEPT !.dialed = TRUE]
            /\ newc' = NewConnCalled
            /\ SetReq(r, [reqs[r] EXCEPT !.pc = "newconn"])
            /\ cli' = [cli EXCEPT !.dials = @ + 1]
       ELSE /\ cli' = [once |-> "done", handshakeErr |-> "dial error", dials |-> cli.dials + 1]
            /\ SetReq(r, [reqs[r] EXCEPT !.pc = "once"])
            /\ UNCHANGED <<sess, newc>>
    /\ UNCHANGED <<role, closeCalls, acceptLoop, outClient>>

\* dial after Open has returned: on an error the session is closed with
\* H3_INTERNAL_ERROR; dialOnce is done.
DialReturn(r) ==
    /\ reqs[r].pc = "newconn"
    /\ newc.pc \in {"ready", "failed"}
    /\ IF newc.pc = "failed"
       THEN CloseWithError(errorInternalError, "") ELSE UNCHANGED closeCalls
    /\ cli' = [cli EXCEPT !.once = "done",
                          !.handshakeErr = IF newc.pc = "failed" THEN "Open error" ELSE "nil"]
    /\ SetReq(r, [reqs[r] EXCEPT !.pc = "once"])
    /\ UNCHANGED <<role, acceptLoop, sess, newc, outClient>>

\* The select leaving for OpenRequestStream whether or not the handshake has
\* completed.
WaitHandshakeSkips(r) ==
    /\ reqs[r].pc = "wait"
    /\ \/ SetReq(r, [reqs[r] EXCEPT !.pc = "open"])
       \/ /\ reqs[r].ctxDone
          /\ SetReq(r, Return(reqs[r], "context"))
    /\ UNCHANGED <<role, closeCalls, acceptLoop, sess, newc, cli, outClient>>

\* The select on HandshakeComplete().Done() and the request context: a case
\* that is ready is taken, either of them when both are; when none is, the
\* call waits until one of the two channels is closed.
WaitHandshake(r) ==
    /\ reqs[r].pc = "wait"
    /\ \/ /\ sess.handshake
          /\ SetReq(r, [reqs[r] EXCEPT !.pc = "open"])
       \/ /\ reqs[r].ctxDone
          /\ SetReq(r, Return(reqs[r], "context"))
       \/ /\ ~sess.handshake
          /\ ~reqs[r].ctxDone
          /\ SetReq(r, [reqs[r] EXCEPT !.pc = "waiting"])
    /\ UNCHANGED <<role, closeCalls, acceptLoop, sess, newc, cli, outClient>>

\* conn.OpenRequestStream: OpenStreamSync fails on a closed session and may
\* fail once the context is done; on success handleIncomingStreams is
\* started (incomingStreamsOnce), and RoundTrip makes reqDone and starts the
\* observer goroutine.
OpenRequestStream(r, ok) ==
    /\ reqs[r].pc = "open"
    /\ ok => ~Closed
    /\ ~ok => Closed \/ reqs[r].ctxDone
    /\ IF ok
       THEN /\ SetReq(r, [reqs[r] EXCEPT !.pc = "write", !.str = TRUE, !.obs = "spawned"])
            /\ acceptLoop' = IF acceptLoop = "idle" THEN "running" ELSE acceptLoop
       ELSE /\ SetReq(r, Return(reqs[r], "open"))
            /\ UNCHANGED acceptLoop
    /\ UNCHANGED <<role, closeCalls, sess, newc, cli, outClient>>

\* A header field of a HEADERS frame.
HeaderField(name, value) == [Name |-> name, Value |-> value]

\* RequestHeaders: the fields of the request, the pseudo-header :method
\* with the method of the request first.
RequestHeaders(method) == <<HeaderField(":method", method)>>

\* What the client puts on the send side of the request stream: a HEADERS
\* frame with its fields, a DATA frame with the number of the body chunk it
\* carries, the close of the send side.
HeadersFrame(fields) == [t |-> "HEADERS", v |-> fields]
DataFrame(chunk) == [t |-> "DATA", v |-> <<chunk>>]
StreamClose == [t |-> "Close", v |-> <<>>]
\* Trailers(req.Trailer).
Trailers == <<HeaderField("foo", "1")>>
\* str.Close() unless the method is CONNECT.
CloseUnlessConnect(rec) ==
    IF rec.method # MethodConnect THEN [rec EXCEPT !.wire = Append(@, StreamClose)] ELSE rec

\* doRequest: writeRequest writes the HEADERS frame of the request.  A
\* request without body and trailers is closed at once; otherwise the
\* body-send goroutine is started, for a body of the given number of chunks
\* (hasBody) or for a nil body with trailers.
WriteRequest(r, ok, hasBody, chunks, trailer) ==
    /\ reqs[r].pc = "write"
    /\ ~hasBody => chunks = 0
    /\ LET sent == [reqs[r] EXCEPT !.pc = "headers",
                                   !.wire = <<HeadersFrame(RequestHeaders(reqs[r].method))>>]
       IN  SetReq(r, IF ~ok THEN [reqs[r] EXCEPT !.pc = "failed", !.err = "other"]
                     ELSE IF ~hasBody /\ ~trailer THEN CloseUnlessConnect(sent)
                     ELSE [sent EXCEPT !.send = [pc |-> IF hasBody THEN "copy" ELSE "panic",
                                                 total |-> chunks, left |-> chunks,
                                                 trailer |-> trailer]])
    /\ UNCHANGED <<role, closeCalls, acceptLoop, sess, newc, cli, outClient>>

\* The body-send goroutine giving up with a clean close of the send side.
SendAbortCloses(rec) ==
    [rec EXCEPT !.send.pc = "aborted", !.wire = Append(@, StreamClose)]

\* The body-send goroutine gives up: str.CancelWrite(errorRequestCanceled).
SendAbort(rec) ==
    [StreamCall(rec, "body-send", "CancelWrite", errorRequestCanceled)
        EXCEPT !.send.pc = "aborted"]

\* io.Copy followed by the close of the send side, the trailers left out.
SendCopySkipsTrailers(r, outcome) ==
    /\ reqs[r].send.pc = "copy"
    /\ outcome \in {"chunk", "write error"} => reqs[r].send.left > 0
    /\ outcome = "EOF" => reqs[r].send.left = 0
    /\ SetReq(r,
         CASE outcome = "chunk" ->
                [reqs[r] EXCEPT !.send.left = @ - 1,
                                !.wire = Append(@, DataFrame(reqs[r].send.total - reqs[r].send.left + 1))]
           [] outcome = "EOF" -> [reqs[r] EXCEPT !.send.pc = "close"]
           [] OTHER -> SendAbort(reqs[r]))
    /\ UNCHANGED <<role, closeCalls, acceptLoop, sess, newc, cli, outClient>>

\* The body-send goroutine, io.Copy(str.DataWriter(), req.Body): the next
\* chunk of the body is read and written as a DATA frame, or the body is at
\* its end and is closed, or the read or the write fails.
SendCopy(r, outcome) ==
    /\ reqs[r].send.pc = "copy"
    /\ outcome \in {"chunk", "write error"} => reqs[r].send.left > 0
    /\ outcome = "EOF" => reqs[r].send.left = 0
    /\ SetReq(r,
         CASE outcome = "chunk" ->
                [reqs[r] EXCEPT !.send.left = @ - 1,
                                !.wire = Append(@, DataFrame(reqs[r].send.total - reqs[r].send.left + 1))]
           [] outcome = "EOF" ->
                [reqs[r] EXCEPT !.send.pc = IF reqs[r].send.trailer THEN "trailers" ELSE "close"]
           [] OTHER -> SendAbort(reqs[r]))
    /\ UNCHANGED <<role, closeCalls, acceptLoop, sess, newc, cli, outClient>>

CopyOutcomes == {"chunk", "EOF", "read error", "write error"}

\* The body-send goroutine: str.WriteHeaders(Trailers(req.Trailer)).
SendTrailers(r, ok) ==
    /\ reqs[r].send.pc = "trailers"
    /\ SetReq(r, IF ok THEN [reqs[r] EXCEPT !.send.pc = "close",
                                            !.wire = Append(@, HeadersFrame(Trailers))]
                 ELSE SendAbort(reqs[r]))
    /\ UNCHANGED <<role, closeCalls, acceptLoop, sess, newc, cli, outClient>>

\* The body-send goroutine: str.Close() unless the method is CONNECT.
SendClose(r) ==
    /\ reqs[r].send.pc = "close"
    /\ SetReq(r, [CloseUnlessConnect(reqs[r]) EXCEPT !.send.pc = "done"])
    /\ UNCHANGED <<role, closeCalls, acceptLoop, sess, newc, cli, outClient>>

\* strconv.Atoi on a string given as the sequence of its characters: an
\* optional sign, then one or more decimal digits.
Digits == <<"0", "1", "2", "3", "4", "5", "6", "7", "8", "9">>
IsDigit(c) == \E d \in DOMAIN Digits : Digits[d] = c
DigitValue(c) == (CHOOSE d \in DOMAIN Digits : Digits[d] = c) - 1
RECURSIVE ParseUint(_)
ParseUint(s) ==
    IF s = <<>> THEN 0
    ELSE ParseUint(SubSeq(s, 1, Len(s) - 1)) * 10 + DigitValue(s[Len(s)])
Atoi(s) ==
    LET signed == s # <<>> /\ s[1] \in {"+", "-"}
        body == IF signed THEN Tail(s) ELSE s
    IN  IF body = <<>> \/ \E i \in DOMAIN body : ~IsDigit(body[i])
        THEN [ok |-> FALSE, n |-> 0]
        ELSE [ok |-> TRUE,
              n |-> IF signed /\ s[1] = "-" THEN 0 - ParseUint(body) ELSE ParseUint(body)]

\* doRequest: the loop over the fields of one HEADERS frame.  statusCode
\* starts at zero and takes the value of every :status field; a :status
\* that Atoi rejects ends the loop with an error.
RECURSIVE StatusCode(_, _)
StatusCode(headers, statusCode) ==
    IF headers = <<>> THEN [ok |-> TRUE, n |-> statusCode]
    ELSE IF Head(headers).Name = pseudoHeaderStatus
         THEN IF Atoi(Head(headers).Value).ok
              THEN StatusCode(Tail(headers), Atoi(Head(headers).Value).n)
              ELSE [ok |-> FALSE, n |-> statusCode]
         ELSE StatusCode(Tail(headers), statusCode)

\* The loop left on the first HEADERS frame, whatever its status.
FinalStatusAlways(statusCode) == statusCode = statusCode

\* The loop of doRequest is left with the response when the status code is
\* not an interim one.
FinalStatus(statusCode) == statusCode < 100 \/ statusCode >= 200

InvalidStatus == "invalid or missing :status header"

\* ------------------------------------------------ the response's length
\* What the end of doRequest leaves alone.
outResponse == <<role, settings, supportsDatagrams, closeCalls, resets, uniVars, ctlVars,
                 bidiVars, demuxVars, cons, dgVars, unitsSeen, cl, clientVars, srv, limits>>

\* The keys of res.Header that doRequest looks at, and the form in which
\* http.Header.Add stores the name of a field.
HeaderKeys == {"Transfer-Encoding", "Content-Length", "Content-Encoding"}
CanonicalKey(name) ==
    IF name = "transfer-encoding" THEN "Transfer-Encoding"
    ELSE IF name = "content-length" THEN "Content-Length"
    ELSE IF name = "content-encoding" THEN "Content-Encoding"
    ELSE IF name = "foo" THEN "Foo"
    ELSE name

\* res.Header after res.Header.Add(hf.Name, hf.Value) for every field: the
\* values of each key in the order of the fields.
RECURSIVE Header(_)
Header(fields) ==
    IF fields = <<>> THEN [k \in HeaderKeys |-> <<>>]
    ELSE LET h == Header(SubSeq(fields, 1, Len(fields) - 1))
             f == fields[Len(fields)]
         IN  IF CanonicalKey(f.Name) \in HeaderKeys
             THEN [h EXCEPT ![CanonicalKey(f.Name)] = Append(@, f.Value)]
             ELSE h

\* res.Header.Get(key): the first value of the key, "" without one.
HeaderGet(header, key) == IF header[key] = <<>> THEN <<>> ELSE header[key][1]

\* The largest int64 and the magnitude of the smallest, in decimal.
MaxInt64 == <<"9", "2", "2", "3", "3", "7", "2", "0", "3", "6", "8", "5", "4", "7", "7", "5", "8", "0", "7">>
MinInt64 == <<"9", "2", "2", "3", "3", "7", "2", "0", "3", "6", "8", "5", "4", "7", "7", "5", "8", "0", "8">>

RECURSIVE TrimZeros(_)
TrimZeros(s) == IF Len(s) > 1 /\ s[1] = "0" THEN TrimZeros(Tail(s)) ELSE s

\* a <= b for two decimal numbers without leading zeros.
RECURSIVE DecimalLE(_, _)
DecimalLE(a, b) ==
    IF Len(a) # Len(b) THEN Len(a) < Len(b)
    ELSE IF a = <<>> THEN TRUE
    ELSE IF a[1] # b[1] THEN DigitValue(a[1]) < DigitValue(b[1])
    ELSE DecimalLE(Tail(a), Tail(b))

\* strconv.ParseInt(s, 10, 64): an optional sign and decimal digits whose
\* value fits an int64.
ParseInt(s) ==
    LET signed == s # <<>> /\ s[1] \in {"+", "-"}
        neg == signed /\ s[1] = "-"
        body == IF signed THEN Tail(s) ELSE s
    IN  IF body = <<>> \/ \E i \in DOMAIN body : ~IsDigit(body[i])
        THEN [ok |-> FALSE, n |-> 0]
        ELSE IF ~DecimalLE(TrimZeros(body), IF neg THEN MinInt64 ELSE MaxInt64)
        THEN [ok |-> FALSE, n |-> 0]
        ELSE [ok |-> TRUE, n |-> IF neg THEN 0 - ParseUint(body) ELSE ParseUint(body)]

\* The length taken from the first of the Content-Length headers.
ContentLengthOfFirst(header, statusCode, method) ==
    LET hasTransferEncoding == header["Transfer-Encoding"] # <<>>
        isInformational == statusCode >= 100 /\ statusCode < 200
        isNoContent == statusCode = 204
        isSuccessfulConnect ==
            method = MethodConnect /\ statusCode >= 200 /\ statusCode < 300
        clens == header["Content-Length"]
    IN  IF ~hasTransferEncoding /\ ~isInformational /\ ~isNoContent /\ ~isSuccessfulConnect
        THEN IF Len(clens) >= 1 /\ ParseInt(clens[1]).ok
             THEN ParseInt(clens[1]).n
             ELSE -1
        ELSE 0

\* doRequest: res.ContentLength, zero in a new response, is set by the rules
\* of RFC 7230 section 3.3.2.
ContentLength(header, statusCode, method) ==
    LET hasTransferEncoding == header["Transfer-Encoding"] # <<>>
        isInformational == statusCode >= 100 /\ statusCode < 200
        isNoContent == statusCode = 204
        isSuccessfulConnect ==
            method = MethodConnect /\ statusCode >= 200 /\ statusCode < 300
        clens == header["Content-Length"]
    IN  IF ~hasTransferEncoding /\ ~isInformational /\ ~isNoContent /\ ~isSuccessfulConnect
        THEN IF Len(clens) = 1 /\ ParseInt(clens[1]).ok
             THEN ParseInt(clens[1]).n
             ELSE -1
        ELSE 0

\* doRequest has left its loop with a final status and the header fields of
\* the frames it has read, and sets res.ContentLength.
SetContentLength(statusCode, method, fields, requestGzip) ==
    /\ resp.pc = "none"
    /\ FinalStatus(statusCode)
    /\ resp' = [pc |-> "length", StatusCode |-> statusCode, Method |-> method,
                Header |-> Header(fields), requestGzip |-> requestGzip,
                ContentLength |-> ContentLength(Header(fields), statusCode, method),
                Uncompressed |-> FALSE]
    /\ UNCHANGED outResponse

\* doRequest: the body of a gzip response that the client asked for is
\* decoded, its length is not known; the response is returned.
ReturnResponse ==
    /\ resp.pc = "length"
    /\ resp' = IF resp.requestGzip /\ HeaderGet(resp.Header, "Content-Encoding") = <<"g", "z", "i", "p">>
               THEN [resp EXCEPT !.pc = "returned",
                                 !.Header["Content-Encoding"] = <<>>,
                                 !.Header["Content-Length"] = <<>>,
                                 !.ContentLength = -1,
                                 !.Uncompressed = TRUE]
               ELSE [resp EXCEPT !.pc = "returned"]
    /\ UNCHANGED outResponse

\* The loop of doRequest returning the error of a malformed :status without
\* resetting the stream.
ReadHeadersNoReset(r, err, headers) ==
    /\ reqs[r].pc = "headers"
    /\ LET sc == StatusCode(headers, 0)
           rec == [reqs[r] EXCEPT !.read = Append(@, headers)]
       IN  IF err # "nil"
           THEN SetReq(r, [reqs[r] EXCEPT !.pc = "failed", !.err = err])
           ELSE IF ~sc.ok
           THEN SetReq(r, [rec EXCEPT !.pc = "failed", !.err = InvalidStatus])
           ELSE IF FinalStatus(sc.n)
           THEN SetReq(r, [rec EXCEPT !.pc = "returned", !.body = "open", !.res = <<sc.n>>])
           ELSE /\ Len(reqs[r].read) < MaxInterim
                /\ SetReq(r, rec)
    /\ UNCHANGED <<role, closeCalls, acceptLoop, sess, newc, cli, outClient>>

\* The fields of a HEADERS frame that doRequest adds to res.Header: every
\* field but :status, under the canonical form of its name.
RECURSIVE AddedFields(_)
AddedFields(headers) ==
    IF headers = <<>> THEN <<>>
    ELSE IF Head(headers).Name = pseudoHeaderStatus THEN AddedFields(Tail(headers))
    ELSE <<HeaderField(CanonicalKey(Head(headers).Name), Head(headers).Value)>>
            \o AddedFields(Tail(headers))

\* doRequest with a new res.Header for every HEADERS frame.
ReadHeadersFreshHeader(r, err, headers) ==
    /\ reqs[r].pc = "headers"
    /\ LET sc == StatusCode(headers, 0)
           rec == [reqs[r] EXCEPT !.read = Append(@, headers),
                                   !.header = AddedFields(headers)]
       IN  IF err # "nil"
           THEN SetReq(r, [reqs[r] EXCEPT !.pc = "failed", !.err = err])
           ELSE IF ~sc.ok
           THEN SetReq(r, [StreamCall(rec, "RoundTrip", "CancelWrite", errorMessageError)
                             EXCEPT !.pc = "failed", !.err = InvalidStatus])
           ELSE IF FinalStatus(sc.n)
           THEN SetReq(r, [rec EXCEPT !.pc = "returned", !.body = "open", !.res = <<sc.n>>])
           ELSE /\ Len(reqs[r].read) < MaxInterim
                /\ SetReq(r, rec)
    /\ UNCHANGED <<role, closeCalls, acceptLoop, sess, newc, cli, outClient>>

\* doRequest: one turn of the loop that reads HEADERS frames.  ReadHeaders
\* fails with err or returns the fields of the next frame; a :status that
\* Atoi rejects resets the stream with H3_MESSAGE_ERROR; a final status
\* code ends the loop and the response with its body is returned.  At most
\* MaxInterim interim frames are read.
ReadHeaders(r, err, headers) ==
    /\ reqs[r].pc = "headers"
    /\ LET sc == StatusCode(headers, 0)
           rec == [reqs[r] EXCEPT !.read = Append(@, headers),
                                   !.header = @ \o AddedFields(headers)]
       IN  IF err # "nil"
           THEN SetReq(r, [reqs[r] EXCEPT !.pc = "failed", !.err = err])
           ELSE IF ~sc.ok
           THEN SetReq(r, [StreamCall(rec, "RoundTrip", "CancelWrite", errorMessageError)
                             EXCEPT !.pc = "failed", !.err = InvalidStatus])
           ELSE IF FinalStatus(sc.n)
           THEN SetReq(r, [rec EXCEPT !.pc = "returned", !.body = "open", !.res = <<sc.n>>])
           ELSE /\ Len(reqs[r].read) < MaxInterim
                /\ SetReq(r, rec)
    /\ UNCHANGED <<role, closeCalls, acceptLoop, sess, newc, cli, outClient>>

\* The errors of RequestStream.ReadHeaders, nil included.
ReadHeadersErrors == {"nil", "FrameTypeError", "FrameLengthError", "other"}

\* RoundTrip after doRequest has failed: close(reqDone).
RoundTripCloseReqDone(r) ==
    /\ reqs[r].pc = "failed"
    /\ SetReq(r, [CloseReqDone(reqs[r]) EXCEPT !.pc = "classify"])
    /\ UNCHANGED <<role, closeCalls, acceptLoop, sess, newc, cli, outClient>>

\* Every error of doRequest answered by a reset of the stream with
\* H3_GENERAL_PROTOCOL_ERROR.
RoundTripClassifyResetsAlways(r) ==
    /\ reqs[r].pc = "classify"
    /\ SetReq(r, [StreamCall(reqs[r], "RoundTrip", "CancelWrite", errorGeneralProtocolError)
                    EXCEPT !.pc = "returned"])
    /\ UNCHANGED <<role, closeCalls, acceptLoop, sess, newc, cli, outClient>>

\* RoundTrip: the switch on the type of the error.
RoundTripClassify(r) ==
    /\ reqs[r].pc = "classify"
    /\ CASE reqs[r].err = "FrameTypeError" ->
              /\ CloseWithError(errorFrameUnexpected, "FrameTypeError")
              /\ SetReq(r, [reqs[r] EXCEPT !.pc = "returned"])
         [] reqs[r].err = "FrameLengthError" ->
              /\ SetReq(r, [StreamCall(reqs[r], "RoundTrip", "CancelWrite", errorFrameError)
                              EXCEPT !.pc = "returned"])
              /\ UNCHANGED closeCalls
         [] OTHER ->
              /\ SetReq(r, [StreamCall(reqs[r], "RoundTrip", "CancelWrite", errorGeneralProtocolError)
                              EXCEPT !.pc = "returned"])
              /\ UNCHANGED closeCalls
    /\ UNCHANGED <<role, acceptLoop, sess, newc, cli, outClient>>

\* The request context is cancelled, during the call or while the request
\* stream is in use: a call waiting for the handshake returns the error of
\* the context, an observer waiting in its select takes the context case.
\* inFlight and parked remember that the stream was open and reqDone not
\* closed, and that the observer was waiting; doneFirst and unscheduled that
\* reqDone was already closed, and that the observer had been started but
\* had not yet reached its select.
CtxCancel(r) ==
    /\ reqs[r].pc # "idle"
    /\ reqs[r].pc = "returned" => reqs[r].str
    /\ ~reqs[r].ctxDone
    /\ SetReq(r, [reqs[r] EXCEPT !.ctxDone = TRUE,
                                 !.pc = IF @ = "waiting" THEN "returned" ELSE @,
                                 !.err = IF reqs[r].pc = "waiting" THEN "context" ELSE @,
                                 !.obs = IF @ = "parked" THEN "cancelWrite" ELSE @,
                                 !.inFlight = reqs[r].str /\ reqs[r].reqDone = 0,
                                 !.parked = reqs[r].obs = "parked",
                                 !.doneFirst = reqs[r].reqDone > 0,
                                 !.unscheduled = reqs[r].obs = "spawned"])
    /\ UNCHANGED <<role, closeCalls, acceptLoop, sess, newc, cli, outClient>>

\* ------------------------------------------------ the observer goroutine
\* The observer enters its select: it takes a case that is ready, either of
\* them if both are, and waits if none is.
ObsSelect(r) ==
    /\ reqs[r].obs = "spawned"
    /\ \E next \in {"cancelWrite", "exit", "parked"} :
        /\ next = "cancelWrite" => reqs[r].ctxDone
        /\ next = "exit" => reqs[r].reqDone > 0
        /\ next = "parked" => ~reqs[r].ctxDone /\ reqs[r].reqDone = 0
        /\ SetReq(r, [reqs[r] EXCEPT !.obs = next])
    /\ UNCHANGED <<role, closeCalls, acceptLoop, sess, newc, cli, outClient>>

\* The observer resetting the receive side first.
ObsCancelReadFirst(r) ==
    /\ reqs[r].obs = "cancelWrite"
    /\ SetReq(r, [StreamCall(reqs[r], "observer", "CancelRead", errorRequestCanceled)
                    EXCEPT !.obs = "cancelRead"])
    /\ UNCHANGED <<role, closeCalls, acceptLoop, sess, newc, cli, outClient>>

\* str.CancelWrite(errorRequestCanceled)
ObsCancelWrite(r) ==
    /\ reqs[r].obs = "cancelWrite"
    /\ SetReq(r, [StreamCall(reqs[r], "observer", "CancelWrite", errorRequestCanceled)
                    EXCEPT !.obs = "cancelRead"])
    /\ UNCHANGED <<role, closeCalls, acceptLoop, sess, newc, cli, outClient>>

\* str.CancelRead(errorRequestCanceled), and the goroutine returns.
ObsCancelRead(r) ==
    /\ reqs[r].obs = "cancelRead"
    /\ SetReq(r, [StreamCall(reqs[r], "observer", "CancelRead", errorRequestCanceled)
                    EXCEPT !.obs = "exit"])
    /\ UNCHANGED <<role, closeCalls, acceptLoop, sess, newc, cli, outClient>>

\* ------------------------------------------------------ the response body
\* body.requestDone is not synchronised: a caller that has found
\* reqDoneClosed unset is in checked until it has closed reqDone and set
\* reqDoneClosed.  Read and Close may be called from different goroutines.
RequestDone(rec, caller) ==
    [CloseReqDone(rec) EXCEPT !.reqDoneClosed = TRUE, !.checked = @ \ {caller}]

\* The Close calls made on the body.
BodyCloses(r) == Len(SelectSeq(reqs[r].calls, LAMBDA c : c.by = "body"))

\* body.Read returning an error (io.EOF included) calls requestDone(): the
\* test of reqDoneClosed.  With reqDoneClosed set the call changes nothing.
BodyReadError(r) ==
    /\ reqs[r].body = "open"
    /\ "Read" \notin reqs[r].checked
    /\ ~reqs[r].reqDoneClosed
    /\ SetReq(r, [reqs[r] EXCEPT !.checked = @ \cup {"Read"}])
    /\ UNCHANGED <<role, closeCalls, acceptLoop, sess, newc, cli, outClient>>

\* requestDone() of Read: close(r.reqDone); r.reqDoneClosed = true.
BodyReadDone(r) ==
    /\ "Read" \in reqs[r].checked
    /\ SetReq(r, RequestDone(reqs[r], "Read"))
    /\ UNCHANGED <<role, closeCalls, acceptLoop, sess, newc, cli, outClient>>

\* body.Close calls requestDone(): the test of reqDoneClosed.  With
\* reqDoneClosed set, Close goes on to CancelRead(errorRequestCanceled).
BodyClose(r) ==
    /\ reqs[r].body \in {"open", "closed"}
    /\ "Close" \notin reqs[r].checked
    /\ BodyCloses(r) < MaxCloses
    /\ SetReq(r, IF reqs[r].reqDoneClosed
                 THEN [StreamCall(reqs[r], "body", "CancelRead", errorRequestCanceled)
                         EXCEPT !.body = "closed"]
                 ELSE [reqs[r] EXCEPT !.checked = @ \cup {"Close"}])
    /\ UNCHANGED <<role, closeCalls, acceptLoop, sess, newc, cli, outClient>>

\* requestDone() of Close: close(r.reqDone); r.reqDoneClosed = true; then
\* CancelRead(errorRequestCanceled).
BodyCloseDone(r) ==
    /\ "Close" \in reqs[r].checked
    /\ SetReq(r, [StreamCall(RequestDone(reqs[r], "Close"), "body", "CancelRead",
                             errorRequestCanceled)
                    EXCEPT !.body = "closed"])
    /\ UNCHANGED <<role, closeCalls, acceptLoop, sess, newc, cli, outClient>>

\* ---------------------------------------------- claims on peer uni streams
\* Streams of type tag t whose handleIncomingUniStream has returned.
UniFinished(t) ==
    uniSeen[[tag |-> t, sid |-> 0]] - Cardinality({h \in uniH : h.s.tag = t})

DuplicateCloses(t) ==
    Cardinality({k \in DOMAIN closeCalls :
                    closeCalls[k] = [code |-> errorStreamCreationError,
                                     why |-> <<"more than one", t>>]})

AtMostOneTags == {StreamTypeControl, StreamTypeQPACKEncoder, StreamTypeQPACKDecoder}

\* C1: every peer stream of type CONTROL, QPACK_ENCODER or QPACK_DECODER
\* handled after the first one of its type has made the connection close
\* with STREAM_CREATION_ERROR (0x103), whatever the interleaving of the
\* handlers.
C1_DuplicateStreamCloses ==
    \A t \in AtMostOneTags : DuplicateCloses(t) >= UniFinished(t) - 1

C1_Witness ==
    \E t \in AtMostOneTags : UniFinished(t) >= 2 /\ DuplicateCloses(t) >= 1

FrameIsSettings(f) == f.type = "SETTINGS" /\ f.ok

\* C2: once the control stream reader has returned and the first frame was
\* not a well-formed SETTINGS frame, the latch is released with an error
\* stored and CloseWithError(MISSING_SETTINGS, 0x10a) was called, for the
\* client and the server role alike.
C2_MissingSettings ==
    \A c \in ctlH :
        (c.pc = "done" /\ ~FrameIsSettings(c.frame)) =>
            /\ latchCloses >= 1
            /\ peerSettingsErr # "nil"
            /\ peerSettings = NilSettings
            /\ \E k \in DOMAIN closeCalls : closeCalls[k].code = errorMissingSettings

C2_Witness ==
    \E c \in ctlH : c.pc = "done" /\ c.frame.type = "DATA" /\ latchCloses = 1

\* C9: peerSettingsDone is closed at most once and at most one control
\* stream, the first one stored in the peer stream table, is ever read for
\* the peer's settings.
C9_LatchReleasedOnce ==
    /\ latchCloses <= 1
    /\ Cardinality(ctlH) <= 1
    /\ \A c \in ctlH : c.s.tag = StreamTypeControl

C9_Witness ==
    /\ UniFinished(StreamTypeControl) >= 2
    /\ latchCloses = 1

\* C11: once the control stream reader is past its datagram check, if the
\* peer's SETTINGS advertised H3_DATAGRAM, the local settings enable
\* datagrams and the QUIC session does not support them, CloseWithError was
\* called with SETTINGS_ERROR (0x109) and "missing QUIC Datagram support".
DatagramMismatch(c) ==
    /\ c.pc \in {"seterr", "done"}
    /\ FrameIsSettings(c.frame) /\ c.frame.datagram
    /\ settings.datagram
    /\ ~supportsDatagrams

C11_DatagramMismatchCloses ==
    \A c \in ctlH :
        DatagramMismatch(c) =>
            \E k \in DOMAIN closeCalls :
                closeCalls[k] = [code |-> errorSettingsError,
                                 why |-> <<"missing QUIC Datagram support", 0>>]

C11_Witness == \E c \in ctlH : DatagramMismatch(c) /\ c.pc = "done"

\* C12: every PUSH stream the peer opens makes its handler close the
\* connection, with STREAM_CREATION_ERROR (0x103) on a server and with
\* ID_ERROR (0x108) on a client: there are at least as many such calls as
\* PUSH streams whose handler has returned.
PushCloseCode == IF role = "server" THEN errorStreamCreationError ELSE errorIDError

PushCloses ==
    Cardinality({k \in DOMAIN closeCalls :
                    /\ closeCalls[k].code = PushCloseCode
                    /\ closeCalls[k].why[2] = StreamTypePush})

C12_PushStreamCloses == PushCloses >= UniFinished(StreamTypePush)

\* C13: the classification of peer unidirectional streams closes the
\* connection only for a PUSH stream or for a duplicate of a tag below 4
\* (the other closes are the control stream reader's); a stream with an
\* unknown type tag whose handler has returned has had its read side reset
\* with STREAM_CREATION_ERROR and nothing else; no QPACK stream is reset and
\* the first one of each type causes no close.
QPACKTags == {StreamTypeQPACKEncoder, StreamTypeQPACKDecoder}
ResetsOf(s) == {x \in resets : x[1] = s}
UnknownFinished ==
    {[tag |-> StreamTypeUnknown, sid |-> 0, n |-> n] : n \in 1..uniSeen[[tag |-> StreamTypeUnknown, sid |-> 0]]}
        \ {h.s : h \in uniH}

C13_OnlyPushAndDuplicatesClose ==
    /\ \A k \in DOMAIN closeCalls :
          \/ closeCalls[k].code \in {errorMissingSettings, errorSettingsError}
          \/ closeCalls[k].why[1] = "more than one" /\ closeCalls[k].why[2] < 4
          \/ closeCalls[k].why[2] = StreamTypePush
    /\ \A s \in UnknownFinished :
          ResetsOf(s) = {Cancel(s, "CancelRead", errorStreamCreationError)}
    /\ \A t \in QPACKTags :
          /\ \A x \in resets : x[1].tag # t
          /\ Cardinality({k \in DOMAIN closeCalls : closeCalls[k].why[2] = t})
                <= IF uniSeen[[tag |-> t, sid |-> 0]] = 0 THEN 0
                   ELSE uniSeen[[tag |-> t, sid |-> 0]] - 1

C13_Witness ==
    /\ UnknownFinished # {}
    /\ \E t \in QPACKTags : UniFinished(t) = 1
    /\ closeCalls = <<>>

\* C10: all calls of PeerSettings / PeerSettingsSync that return through the
\* released latch return the same (settings, error) pair.
C10_LatchStable == Cardinality(obsLog) <= 1

\* ------------------------------------------------ claims on the demultiplexer
\* The session id a unit is tagged with.
SidOf(kind, u) == IF kind = "bidi" THEN u.frames[Len(u.frames)].sid ELSE u.sid

DeqUnits(c) == [j \in 1..Len(c.deq) |-> c.deq[j][1]]

C6_InvalidSessionNeverQueued ==
    \A k \in Kinds : \A x \in DOMAIN chans[k] : \A j \in DOMAIN chans[k][x].enq :
        IsClientBidi(SidOf(k, chans[k][x].enq[j]))

\* C7: no stream channel ever holds more than 10 streams; a stream is
\* rejected only by a producer that found 10 streams buffered, it is then
\* not enqueued and is reset with WEBTRANSPORT_BUFFERED_STREAM_REJECTED
\* (0x3994bd84); a producer at its select always completes it in one step.
StreamKinds == {"bidi", "uni"}

EnqueuedIn(k) ==
    UNION {{chans[k][x].enq[j] : j \in DOMAIN chans[k][x].enq} : x \in DOMAIN chans[k]}

C7_BoundedChannels ==
    /\ \A k \in StreamKinds : \A x \in DOMAIN chans[k] : Len(chans[k][x].buf) <= maxBufferedStreams
    /\ \A r \in rejects :
          /\ r[2] = maxBufferedStreams
          /\ r[1] \notin EnqueuedIn("bidi") \cup EnqueuedIn("uni")
          /\ <<r[1], "CancelRead", errorWebTransportBufferedStreamRejected>> \in resets
    /\ \A h \in bidiH : h.pc = "send" => ENABLED BidiSend(h)
    /\ \A h \in uniH : h.pc = "send" => ENABLED UniSend(h)

C7_Witness ==
    /\ rejects # {}
    /\ \E x \in DOMAIN chans["bidi"] : Len(chans["bidi"][x].buf) = maxBufferedStreams

\* ---------------------------------------- claims on bidirectional streams
IsGrease(fr) == fr.t = "GREASE"

\* The first frame of the stream that is not a grease frame.
RECURSIVE FirstNonGrease(_)
FirstNonGrease(frames) ==
    IF frames = <<>> THEN EOFFrame
    ELSE IF IsGrease(Head(frames)) THEN FirstNonGrease(Tail(frames))
    ELSE Head(frames)

BidiStreamsSeen ==
    {[frames |-> c, n |-> n] : c \in {d \in BidiContents : bidiSeen[d] > 0}, n \in 1..MaxBidiStreams + 1}
BidiFinished ==
    {s \in BidiStreamsSeen : s.n <= bidiSeen[s.frames] /\ \A h \in bidiH : h.s # s}

IllegalFirstFrame(s) ==
    FirstNonGrease(s.frames).t \notin {"HEADERS", "WEBTRANSPORT_STREAM", "EOF"}

\* C3: a bidirectional stream whose first non-grease frame is neither
\* HEADERS nor WEBTRANSPORT_STREAM is never sent to the request dispatcher,
\* and once its handler has returned the connection was closed with
\* FRAME_UNEXPECTED (0x105).
C3_IllegalFirstFrameCloses ==
    /\ \A s \in handed : ~IllegalFirstFrame(s)
    /\ \A s \in BidiFinished :
          IllegalFirstFrame(s) =>
              \E k \in DOMAIN closeCalls : closeCalls[k].code = errorFrameUnexpected

\* ------------------------------------- claims on construction and the client
\* The request streams opened on the connection: by OpenRequestStream on a
\* client, by the peer and accepted by handleIncomingStreams on a server.
RequestStreamOpened == (\E r \in Requests : reqs[r].str) \/ unitsSeen > 0

\* C8: when a request stream is opened on a connection, the CONTROL stream
\* type and then the local SETTINGS frame have been written on the local
\* control stream.
C8_SettingsBeforeRequests ==
    RequestStreamOpened => newc.out = <<"CONTROL", "SETTINGS">>

C8_Witness ==
    /\ \E r \in Requests : reqs[r].str
    /\ ~sess.handshake
    /\ newc.out = <<"CONTROL", "SETTINGS">>

\* The calls the observer of request r has made on the request stream.
ObsCalls(r) == SelectSeq(reqs[r].calls, LAMBDA c : c.by = "observer")
CancelWriteThenRead ==
    <<[by |-> "observer", op |-> "CancelWrite", code |-> errorRequestCanceled],
      [by |-> "observer", op |-> "CancelRead", code |-> errorRequestCanceled]>>

\* C4 as stated, on finite runs: an observer that has returned after the
\* context was cancelled with the stream open and the request not done has
\* called CancelWrite(REQUEST_CANCELED) and CancelRead(REQUEST_CANCELED).
C4_CancelAlwaysResets ==
    \A r \in Requests :
        reqs[r].inFlight /\ reqs[r].obs = "exit" => ObsCalls(r) = CancelWriteThenRead

\* C4, amended: the observer makes no other calls than CancelWrite(REQUEST_CANCELED)
\* followed by CancelRead(REQUEST_CANCELED).  After a cancellation with the
\* stream open and the request not done it eventually has made both calls, or
\* has returned without a call because reqDone was closed before it took the
\* cancellation; the latter only if it had not yet reached its select when the
\* context was cancelled.
C4_CancelResetsUnlessDone ==
    /\ [](\A r \in Requests :
            /\ \E k \in 0..2 : ObsCalls(r) = SubSeq(CancelWriteThenRead, 1, k)
            /\ reqs[r].inFlight /\ reqs[r].obs = "exit" /\ ObsCalls(r) = <<>>
                  => reqs[r].reqDone > 0 /\ ~reqs[r].parked)
    /\ \A r \in Requests :
          reqs[r].inFlight ~>
              \/ ObsCalls(r) = CancelWriteThenRead
              \/ reqs[r].obs = "exit" /\ reqs[r].reqDone > 0 /\ ~reqs[r].parked

C4_Witness ==
    \E r \in Requests :
        /\ reqs[r].inFlight
        /\ reqs[r].body = "open"
        /\ reqs[r].reqDone = 0
        /\ ObsCalls(r) = CancelWriteThenRead

\* The calls RoundTrip (doRequest included) has made on the request stream
\* of request r, and the requests whose RoundTrip has returned the error e
\* of doRequest.
RoundTripCalls(r) == SelectSeq(reqs[r].calls, LAMBDA c : c.by = "RoundTrip")
FailedWith(e) ==
    {r \in Requests : reqs[r].pc = "returned" /\ reqs[r].str /\ reqs[r].err = e}
CallOf(op, code) == [by |-> "RoundTrip", op |-> op, code |-> code]
FrameUnexpectedCloses ==
    Cardinality({k \in DOMAIN closeCalls : closeCalls[k].code = errorFrameUnexpected})

\* C14: a RoundTrip that has returned an error of doRequest has, for a
\* FrameTypeError, closed the connection with FRAME_UNEXPECTED (0x105) and
\* reset no stream; for a FrameLengthError, reset the stream with FRAME_ERROR
\* (0x106) and not closed the connection; for any other error, reset the
\* stream with GENERAL_PROTOCOL_ERROR (0x101) last and not closed the
\* connection; the error returned is the one doRequest returned.
C14_ErrorClassification ==
    /\ \A r \in FailedWith("FrameTypeError") : RoundTripCalls(r) = <<>>
    /\ \A r \in FailedWith("FrameLengthError") :
          RoundTripCalls(r) = <<CallOf("CancelWrite", errorFrameError)>>
    /\ \A r \in FailedWith("other") \cup FailedWith(InvalidStatus) :
          /\ RoundTripCalls(r) # <<>>
          /\ RoundTripCalls(r)[Len(RoundTripCalls(r))] = CallOf("CancelWrite", errorGeneralProtocolError)
    /\ FrameUnexpectedCloses = Cardinality(FailedWith("FrameTypeError"))
    /\ \A r \in Requests :
          reqs[r].pc = "returned" /\ reqs[r].str /\ reqs[r].body = "none"
              => reqs[r].err \in {"FrameTypeError", "FrameLengthError", "other", InvalidStatus}

C14_Witness ==
    /\ FailedWith("FrameTypeError") # {}
    /\ FrameUnexpectedCloses = 1

\* A string is a decimal integer: an optional sign and at least one digit,
\* all of its characters after the sign being digits.
DecimalDigits == {"0", "1", "2", "3", "4", "5", "6", "7", "8", "9"}
DecimalInteger(v) ==
    LET digits == IF v # <<>> /\ v[1] \in {"+", "-"} THEN Tail(v) ELSE v
    IN  Len(digits) >= 1 /\ \A i \in DOMAIN digits : digits[i] \in DecimalDigits
\* The values of the :status fields of a HEADERS frame.
StatusFields(headers) ==
    {headers[i].Value : i \in {j \in DOMAIN headers : headers[j].Name = pseudoHeaderStatus}}
MalformedStatus(headers) == \E v \in StatusFields(headers) : ~DecimalInteger(v)
\* The requests that have read a HEADERS frame with a malformed :status.
ReadMalformed ==
    {r \in Requests : \E i \in DOMAIN reqs[r].read : MalformedStatus(reqs[r].read[i])}

\* C15: once a RoundTrip has read a HEADERS frame, interim or final, whose
\* :status is not a decimal integer, it has reset the request stream with
\* MESSAGE_ERROR (0x10e) before returning, and it returns no response and
\* the error "invalid or missing :status header".
C15_MalformedStatusResets ==
    \A r \in ReadMalformed :
        /\ RoundTripCalls(r) # <<>>
        /\ RoundTripCalls(r)[1] = CallOf("CancelWrite", errorMessageError)
        /\ reqs[r].pc \in {"failed", "classify", "returned"}
        /\ reqs[r].err = InvalidStatus
        /\ reqs[r].res = <<>>
        /\ reqs[r].body = "none"

C15_Witness ==
    \E r \in ReadMalformed :
        /\ reqs[r].pc = "returned"
        /\ Len(reqs[r].read) = 2
        /\ ~MalformedStatus(reqs[r].read[1])

\* C16: a response returned by RoundTrip has a status code from 100 to 999;
\* a :status outside that range, missing or not a number is a stream error
\* MESSAGE_ERROR instead.
C16_StatusInRange ==
    \A r \in Requests :
        reqs[r].res # <<>> => reqs[r].res[1] >= 100 /\ reqs[r].res[1] <= 999

\* An interim HEADERS frame: its :status is a decimal integer from 100 to 199.
InterimHeaders(headers) ==
    \E v \in StatusFields(headers) :
        DecimalInteger(v) /\ Atoi(v).n >= 100 /\ Atoi(v).n <= 199
InterimBefore(r, n) == \A i \in 1..(n - 1) : InterimHeaders(reqs[r].read[i])

\* C17: RoundTrip goes on reading HEADERS frames as long as they are
\* interim (100..199); the response it returns after k interim frames and
\* a final one was read from exactly k+1 frames, every interim one before
\* the final one, and its status code is not in 100..199.
C17_InterimThenFinal ==
    \A r \in Requests :
        /\ reqs[r].pc = "headers" => InterimBefore(r, Len(reqs[r].read) + 1)
        /\ reqs[r].res # <<>> =>
              /\ Len(reqs[r].read) >= 1
              /\ InterimBefore(r, Len(reqs[r].read))
              /\ ~InterimHeaders(reqs[r].read[Len(reqs[r].read)])
              /\ ~(reqs[r].res[1] >= 100 /\ reqs[r].res[1] <= 199)

C17_Witness ==
    \E r \in Requests :
        /\ reqs[r].res = <<200>>
        /\ Len(reqs[r].read) = MaxInterim + 1
        /\ InterimBefore(r, MaxInterim + 1)

\* The steps of one RoundTrip call: its request stream is opened; its
\* context is cancelled while it waits in the select for the handshake.
OpensStream(r) == ~reqs[r].str /\ reqs'[r].str
CancelledWaiting(r) == reqs[r].pc = "waiting" /\ ~reqs[r].ctxDone /\ reqs'[r].ctxDone

\* C18: the request stream of a request whose method is not GET_0RTT is
\* opened only when the handshake of a live session has completed; a call
\* whose context is cancelled while it waits for the handshake returns the
\* error of the context, and a call that has returned without a stream
\* opens none afterwards.
C18_HandshakeGate ==
    [][\A r \in Requests :
          /\ OpensStream(r) /\ ~reqs'[r].zeroRTT => sess.handshake /\ ~sess.gone
          /\ CancelledWaiting(r) =>
                reqs'[r].pc = "returned" /\ reqs'[r].err = "context" /\ ~reqs'[r].str
          /\ reqs[r].pc = "returned" /\ ~reqs[r].str => reqs'[r] = reqs[r]]_vars

C18_Witness ==
    \E r, q \in Requests :
        /\ reqs[r].pc = "returned" /\ reqs[r].err = "context" /\ ~reqs[r].str
        /\ reqs[q].str /\ ~reqs[q].zeroRTT

\* The calls whose request was given with the method GET_0RTT.
ZeroRTTCalls == {r \in Requests : reqs[r].method = MethodGet0RTT \/ reqs[r].zeroRTT}

\* C19: a RoundTrip call for a GET_0RTT request never waits for the
\* handshake (it opens its stream and writes the request HEADERS whether or
\* not the handshake has completed), and the :method it writes is GET.
C19_ZeroRTTSendsAsGet ==
    \A r \in ZeroRTTCalls :
        /\ reqs[r].pc \notin {"wait", "waiting"}
        /\ reqs[r].err # "context"
        /\ reqs[r].wire # <<>> =>
              /\ reqs[r].wire[1].t = "HEADERS"
              /\ reqs[r].wire[1].v[1] = HeaderField(":method", "GET")

C19_Witness ==
    \E r \in ZeroRTTCalls :
        /\ reqs[r].str
        /\ reqs[r].wire # <<>>
        /\ ~sess.handshake

\* dial has returned an error.
DialFailed == cli.once = "done" /\ cli.handshakeErr # "nil"
\* The calls made for the authority of the client that have returned.
ReturnedCalls == {r \in Requests : reqs[r].pc = "returned" /\ reqs[r].err # "wrong client"}

\* C20: whatever the number and the interleaving of the RoundTrip calls,
\* the dialer is called at most once; once dial has failed no call is
\* dialing or past dialOnce, no call has a request stream, and every call
\* that has returned has returned the error of dial.
C20_DialOnce ==
    /\ cli.dials <= 1
    /\ DialFailed =>
          /\ \A r \in Requests : ~reqs[r].str /\ reqs[r].pc \in {"idle", "once", "returned"}
          /\ \A r \in ReturnedCalls : reqs[r].err = cli.handshakeErr

C20_Witness ==
    /\ DialFailed
    /\ cli.dials = 1
    /\ ReturnedCalls = Requests

\* The step in which a RoundTrip call is refused for the wrong authority,
\* and the calls refused so far.
RefusedNow(r) == reqs[r].pc = "idle" /\ reqs'[r].err = "wrong client"
Refused == {r \in Requests : reqs[r].err = "wrong client"}

\* C21: a RoundTrip call for another authority returns the BUG error at
\* once: it has no request stream and has written nothing, the step leaves
\* the dial state, the session and the connection as they were, and the
\* call does nothing afterwards.
C21_WrongAuthorityRefused ==
    [][\A r \in Requests :
          /\ RefusedNow(r) =>
                /\ reqs'[r].pc = "returned" /\ ~reqs'[r].str /\ reqs'[r].wire = <<>>
                /\ UNCHANGED <<cli, sess, newc, closeCalls>>
          /\ r \in Refused => reqs'[r] = reqs[r]]_vars

\* A refused call, and a later call for the right authority that has dialed
\* and opened its stream.
C21_Witness ==
    \E r \in Refused, q \in Requests :
        /\ r < q
        /\ cli.dials = 1
        /\ reqs[q].str

\* The calls whose request has a body, and what such a call has put on the
\* request stream after the HEADERS frame of the request.
WithBody == {r \in Requests : reqs[r].send.pc \in {"copy", "trailers", "close", "done", "aborted"}}
AfterHeaders(r) == Tail(reqs[r].wire)
\* DATA frames come first, then the trailer HEADERS, then the close.
WireRank(f) == IF f.t = "DATA" THEN 1 ELSE IF f.t = "HEADERS" THEN 2 ELSE 3
CountOf(r, t) == Cardinality({i \in DOMAIN AfterHeaders(r) : AfterHeaders(r)[i].t = t})

\* C22: a request with a body is written as one HEADERS frame, then the
\* DATA frames of the body chunks in order, then one trailer HEADERS frame
\* if and only if the request has trailers, then the close of the send side
\* unless the method is CONNECT; no DATA frame follows the trailers and
\* nothing follows the close.
C22_RequestWriteOrder ==
    \A r \in WithBody :
        LET rest == AfterHeaders(r)
        IN  /\ reqs[r].wire[1] = HeadersFrame(RequestHeaders(reqs[r].method))
            /\ \A i, j \in DOMAIN rest :
                  i < j => /\ WireRank(rest[i]) <= WireRank(rest[j])
                           /\ WireRank(rest[i]) = WireRank(rest[j]) => rest[i].t = "DATA"
            /\ \A i \in DOMAIN rest : rest[i].t = "DATA" => rest[i].v = <<i>>
            /\ CountOf(r, "HEADERS") = 1 => reqs[r].send.trailer /\ CountOf(r, "DATA") = reqs[r].send.total
            /\ CountOf(r, "Close") = 1 =>
                  /\ reqs[r].method # MethodConnect
                  /\ CountOf(r, "DATA") = reqs[r].send.total
                  /\ reqs[r].send.trailer => CountOf(r, "HEADERS") = 1
            /\ reqs[r].send.pc = "done" =>
                  /\ CountOf(r, "DATA") = reqs[r].send.total
                  /\ CountOf(r, "HEADERS") = 1 <=> reqs[r].send.trailer
                  /\ CountOf(r, "Close") = 1 <=> reqs[r].method # MethodConnect

C22_Witness ==
    \E r \in WithBody :
        /\ reqs[r].send = [pc |-> "done", total |-> MaxChunks, left |-> 0, trailer |-> TRUE]
        /\ reqs[r].method = MethodPost
        /\ Len(reqs[r].wire) = MaxChunks + 3

\* The calls of the body-send goroutine on the request stream of request r.
SendCalls(r) == SelectSeq(reqs[r].calls, LAMBDA c : c.by = "body-send")
SendFailed == {r \in Requests : reqs[r].send.pc = "aborted"}

\* C23: when the copy of the request body or the write of the trailers has
\* failed, the body-send goroutine has reset the write side of the stream
\* with REQUEST_CANCELED (0x10c), and the send side of that request is not
\* cleanly closed, then or later.
C23_SendFailureResets ==
    \A r \in SendFailed :
        /\ SendCalls(r) = <<[by |-> "body-send", op |-> "CancelWrite", code |-> errorRequestCanceled]>>
        /\ \A i \in DOMAIN reqs[r].wire : reqs[r].wire[i].t # "Close"

\* The write of the trailers fails after the whole body has been written,
\* and RoundTrip has returned.
C23_Witness ==
    \E r \in SendFailed :
        /\ reqs[r].send.trailer
        /\ Len(reqs[r].wire) = MaxChunks + 1
        /\ reqs[r].pc = "returned"

\* The events of one handled request stream, and the streams whose handler
\* has been called and which handleRequestStream is done with.
ServedLog(i) == srv.str[i].log
EventsOf(i, ev) == {k \in DOMAIN ServedLog(i) : ServedLog(i)[k].ev = ev}
Handled == {i \in Served : srv.str[i].pc = "done" /\ EventsOf(i, "handler") # {}}

\* C24: a request stream is never sent CancelRead before its handler has
\* returned; once the server is done with a request whose handler did not
\* call DataStream(), it has called CancelRead(NO_ERROR) once, after the
\* return of the handler, whether the handler read the body or not; if the
\* handler called DataStream(), no CancelRead is made.
C24_CancelReadAfterHandler ==
    \A i \in Served :
        /\ \A k \in EventsOf(i, "CancelRead") :
              /\ ServedLog(i)[k].code = errorNoError
              /\ \E j \in EventsOf(i, "returned") : j < k
        /\ i \in Handled =>
              Cardinality(EventsOf(i, "CancelRead")) = IF srv.str[i].dataStream THEN 0 ELSE 1

\* A handler that read the body without taking the stream, and one that
\* took the stream.
C24_Witness ==
    \E i, j \in Handled :
        /\ srv.str[i].bodyRead /\ ~srv.str[i].dataStream
        /\ srv.str[j].dataStream

\* The request streams whose HEADERS frame is longer than the server allows
\* and has been read.
TooLarge ==
    {i \in Served : srv.str[i].pc \notin {"idle", "read"} /\ srv.str[i].len > maxHeaderBytes}

\* C25: a request whose HEADERS frame is longer than the server's effective
\* max-field-section-size has its stream reset with FRAME_ERROR (0x106) and
\* nothing else done to it: the handler is not called for it, and the
\* connection is not closed.
C25_TooLargeHeadersReset ==
    \A i \in TooLarge :
        /\ ServedLog(i) = <<[ev |-> "CancelWrite", code |-> errorFrameError]>>
        /\ srv.str[i].pc = "done"
        /\ closeCalls = <<>>

\* With a configured limit: one request over it, and one at the limit whose
\* handler has run.
C25_Witness ==
    /\ srv.maxField = testMaxHeaderBytes
    /\ \E i \in TooLarge, j \in Handled :
          /\ srv.str[i].len = testMaxHeaderBytes + 1
          /\ srv.str[j].len = testMaxHeaderBytes

\* C26: the datagram handler never waits with a datagram for a channel that
\* already holds maxBufferedDatagrams (10) datagrams: such a datagram is
\* dropped and the handler goes on to the next one, so that a full channel
\* of one session does not hold up the datagrams of another.
C26_FullChannelDrops ==
    ~(/\ dgH.pc = "send"
      /\ BufLen("dgram", dgH.ch) >= maxBufferedDatagrams)

\* C27: each critical section of cleanup(i) deletes the entry of session id i
\* from its table (bidirectional streams, then unidirectional streams, then
\* datagrams, all for the same i) and leaves every other entry of the three
\* tables and the buffered contents of every channel unchanged.
CleanupSteps ==
    cl' # cl =>
        /\ cl'.step = (cl.step + 1) % 3
        /\ cl.step # 0 => cl'.sid = cl.sid
        /\ table'[CleanupKind(cl.step)][cl'.sid] = 0
        /\ \A k \in Kinds, j \in SessionIDs :
              (k # CleanupKind(cl.step) \/ j # cl'.sid) => table'[k][j] = table[k][j]
        /\ chans' = chans

C27_CleanupFrame == [][CleanupSteps]_vars

\* A cleanup call has returned: the session had a datagram channel, its
\* entries are gone from the three tables, and another session still has
\* its entry and its buffered datagram.
C27_Witness ==
    /\ cl.n > 0
    /\ cl.step = 0
    /\ \A k \in Kinds : table[k][cl.sid] = 0
    /\ \E c \in 1..Len(chans["dgram"]) : chans["dgram"][c].sid = cl.sid
    /\ \E j \in ValidSessionIDs \ {cl.sid} :
          /\ table["dgram"][j] # 0
          /\ BufLen("dgram", table["dgram"][j]) > 0

\* C28: when doRequest has set the length of a final response, ContentLength
\* comes from the Content-Length header only if there is no Transfer-Encoding
\* header, the status is not 204 and the request is not a CONNECT answered
\* with 2xx; it is then the value of the header if there is exactly one
\* Content-Length header and it is a decimal integer that fits an int64, and
\* -1 otherwise (so -1 without a Content-Length header).  In the other cases
\* ContentLength keeps the zero of a new response.
LengthFromHeader ==
    /\ resp.Header["Transfer-Encoding"] = <<>>
    /\ resp.StatusCode # 204
    /\ ~(resp.Method = MethodConnect /\ resp.StatusCode \in 200..299)
SingleLength ==
    /\ Len(resp.Header["Content-Length"]) = 1
    /\ DecimalInteger(resp.Header["Content-Length"][1])
    /\ ParseInt(resp.Header["Content-Length"][1]).ok
DoneFirst == {r \in Requests : reqs[r].reqDone > 0 /\ (reqs[r].ctxDone => reqs[r].doneFirst)}

\* C29 as stated: when reqDone is closed before the request context is
\* cancelled, the observer makes no CancelWrite and no CancelRead call,
\* whenever it is scheduled.
C29_DoneFirstNeverResets == \A r \in DoneFirst : ObsCalls(r) = <<>>

\* C29, amended: when reqDone is closed before the request context is
\* cancelled, an observer that has reached its select before the
\* cancellation makes no CancelWrite and no CancelRead call; calls are made
\* only by an observer that was started but came to its select after both.
C29_DoneFirstResetsOnlyLate ==
    \A r \in DoneFirst : ObsCalls(r) # <<>> => reqs[r].unscheduled

\* The observer was waiting in its select when reqDone was closed, the
\* context was cancelled afterwards, and the observer has returned without
\* a call.
C29_Witness ==
    \E r \in DoneFirst :
        /\ reqs[r].ctxDone
        /\ ~reqs[r].unscheduled
        /\ reqs[r].obs = "exit"
        /\ ObsCalls(r) = <<>>

\* C30: the request-done channel of a request is closed at most once,
\* whatever the order and the interleaving of RoundTrip's error path, of the
\* Read calls of the response body that return an error and of its Close
\* calls, repeated and concurrent calls included.
C30_ReqDoneClosedOnce == \A r \in Requests : reqs[r].reqDone <= 1

\* C31: without H3_DATAGRAM in the local settings the connection is not
\* closed with SETTINGS_ERROR "missing QUIC Datagram support", whatever the
\* peer's SETTINGS advertise and whether or not the QUIC session supports
\* datagrams.
C31_LocalDatagramRequired ==
    ~settings.datagram =>
        \A k \in DOMAIN closeCalls :
            closeCalls[k] # [code |-> errorSettingsError,
                             why |-> <<"missing QUIC Datagram support", 0>>]

\* C32: the limit applied to outgoing headers is never a value computed
\* while the peer-settings latch was still pending: peerMaxHeaderBytes takes
\* the peer's settings only through the released latch.
C32_LimitAwaitsLatch == \A l \in limits : l.side = "peer" => ~l.pending

\* C33: the effective max-field-section-size, of the local settings and of
\* the peer's settings alike, is the advertised MAX_FIELD_SECTION_SIZE when
\* it is present and non-zero and 16 MiB when it is absent or zero.  For the
\* peer's settings this is stated of the limits computed once the SETTINGS
\* frame has been read and the latch released.
PeerAdvertised == peerSettings.valid /\ peerSettings.hasMax /\ peerSettings.max > 0
C33_EffectiveLimit ==
    \A l \in limits :
        /\ l.side = "local" =>
              l.value = IF srv.maxField > 0 THEN srv.maxField ELSE 16777216
        /\ (l.side = "peer" /\ ~l.pending /\ ~Closed) =>
              l.value = IF PeerAdvertised THEN peerSettings.max ELSE 16777216

\* C34: the body-send goroutine of a request without a body and with
\* trailers does not fail: it is never stopped by a panic before it has
\* written the trailing HEADERS frame and closed the send side.
C34_TrailersWithoutBody ==
    \A r \in Requests : reqs[r].send.trailer => reqs[r].send.pc # "panic"

\* C35: when the read of the first frame header of an accepted
\* bidirectional stream fails, the handler of the stream returns with the
\* write side reset with REQUEST_INCOMPLETE (0x10d), making no other call:
\* the connection is not closed, and the stream is never handed to the
\* request dispatcher.
FirstReadFails(h) == h.s.frames = <<>> /\ h.pc = "next"
FirstReadFailsStep ==
    /\ \A h \in bidiH \ bidiH' :
          FirstReadFails(h) =>
              /\ resets' = resets \cup {Cancel(h.s, "CancelWrite", errorRequestIncomplete)}
              /\ closeCalls' = closeCalls
              /\ \A g \in bidiH' : g.s # h.s
    /\ \A s \in handed' : s.frames # <<>>
    /\ \A i \in DOMAIN reqChan' : reqChan'[i].frames # <<>>

C35_FirstReadFailureResets == [][FirstReadFailsStep]_vars

\* The handler of such a stream has returned and the connection is open.
C35_Witness ==
    /\ \E n \in 1..MaxBidiStreams :
          Cancel([frames |-> <<>>, n |-> n], "CancelWrite", errorRequestIncomplete) \in resets
    /\ closeCalls = <<>>
    /\ bidiH = {}

\* The WebTransport unidirectional streams whose handler has returned.
UniWTFinished ==
    {s \in [tag : {StreamTypeWebTransportStream}, sid : SessionIDs \cup {ReadErr},
            n : 1..(MaxUnits + 1)] :
        /\ s.n <= uniSeen[[tag |-> s.tag, sid |-> s.sid]]
        /\ \A h \in uniH : h.s # s}

\* C36: without WebTransport in the local settings, a WEBTRANSPORT_STREAM
\* bidirectional stream whose handler has returned was reset in both
\* directions with SETTINGS_ERROR, a WebTransport unidirectional stream on
\* its read side; no stream is placed in a session channel and no entry of
\* a demultiplex table is made.
C36_WebTransportDisabled ==
    ~settings.webtransport =>
        /\ \A s \in BidiFinished :
              {Cancel(s, "CancelRead", errorSettingsError),
               Cancel(s, "CancelWrite", errorSettingsError)} \subseteq resets
        /\ \A s \in UniWTFinished : Cancel(s, "CancelRead", errorSettingsError) \in resets
        /\ \A r \in resets : r[3] = errorSettingsError
        /\ \A k \in Kinds : chans[k] = <<>> /\ \A i \in SessionIDs : table[k][i] = 0

\* A stream of each direction has been refused.
C36_Witness ==
    /\ ~settings.webtransport
    /\ BidiFinished # {}
    /\ UniWTFinished # {}
    /\ bidiH = {} /\ uniH = {}

\* The fields other than :status of the frames read for request r, in the
\* order in which they were read, named as http.Header names them.
RECURSIVE FieldsRead(_)
FieldsRead(frames) ==
    IF frames = <<>> THEN <<>>
    ELSE FieldsRead(SubSeq(frames, 1, Len(frames) - 1))
            \o SelectSeq(frames[Len(frames)], LAMBDA f : f.Name # pseudoHeaderStatus)
HeaderValues(fields, key) ==
    LET named == SelectSeq(fields, LAMBDA f : CanonicalKey(f.Name) = key)
    IN  [i \in DOMAIN named |-> named[i].Value]

C39_CancelledAcceptReturns ==
    \A k \in Kinds, i \in ValidSessionIDs :
        cons[k][i].pc = "recv" /\ cons[k][i].ctxDone /\ BufLen(k, cons[k][i].ch) = 0
            => SelectDone(k, i)

\* C40: no WebTransport stream is lost; a stream buffered in a channel
\* stays within reach of the accept calls of its session: the channel is the
\* one its table holds for the session, or an accept call waits on it.
C40_NoStreamOrphaned ==
    \A k \in StreamKinds : \A x \in DOMAIN chans[k] :
        chans[k][x].buf # <<>> =>
            \/ table[k][chans[k][x].sid] = x
            \/ \E i \in ValidSessionIDs : cons[k][i].pc = "recv" /\ cons[k][i].ch = x

\* ------------------------------------------------------- specifications
NextUni ==
    \/ AcceptUniStream(UniPlain, unitsSeen < MaxUniStreams)
    \/ \E h \in uniH : UniReadType(h)
    \/ \E h \in uniH : UniStore(h)
    \/ \E h \in uniH : UniCheckDup(h)
    \/ \E c \in ctlH : CtlReadSettings(c)
    \/ \E c \in ctlH : CtlCloseLatch(c)
    \/ \E c \in ctlH : CtlCheckErr(c)
    \/ \E c \in ctlH : CtlCheckDatagram(c)
    \/ \E c \in ctlH : CtlStoreErr(c)
    \/ PeerSettings

InitUni == Init /\ newc = Constructed /\ settings.webtransport = FALSE

NextDemux ==
    \/ StartAcceptLoop
    \/ AcceptStream(BidiWTContents, unitsSeen < MaxUnits)
    \/ \E h \in bidiH : BidiClassify(h)
    \/ \E h \in bidiH : BidiLookup(h)
    \/ \E h \in bidiH : BidiSend(h)
    \/ AcceptUniStream({c \in UniWT : c.sid # ReadErr}, unitsSeen < MaxUnits)
    \/ \E h \in uniH : UniReadType(h)
    \/ \E h \in uniH : UniLookup(h)
    \/ \E h \in uniH : UniSend(h)
    \/ DgReceive(SessionIDs, unitsSeen < MaxUnits)
    \/ DgLookup
    \/ DgSend
    \/ \E k \in Kinds, i \in ValidSessionIDs : AcceptLookup(k, i, AcceptsTotal < MaxAccepts)
    \/ \E k \in Kinds, i \in ValidSessionIDs : AcceptRecv(k, i)

InitDemux ==
    /\ Init
    /\ newc = Constructed
    /\ role = "server"
    /\ settings = [datagram |-> TRUE, webtransport |-> TRUE]
    /\ supportsDatagrams = TRUE

SpecDemux == InitDemux /\ [][NextDemux]_vars

\* The server's accept loop with request streams only.
NextBidi ==
    \/ StartAcceptLoop
    \/ AcceptStream(BidiRequestContents, unitsSeen < MaxBidiStreams)
    \/ \E h \in bidiH : BidiClassify(h)
    \/ \E h \in bidiH : BidiHandoff(h)
    \/ AcceptRequestStream

InitBidi ==
    /\ Init
    /\ newc = Constructed
    /\ role = "server"
    /\ settings = [datagram |-> FALSE, webtransport |-> FALSE]
    /\ supportsDatagrams = FALSE

SpecBidi == InitBidi /\ [][NextBidi]_vars

\* A burst of WebTransport streams for one session: the peer opens the next
\* stream once the handler of the previous one has returned, while the
\* session's accept calls run concurrently with the handlers.
BurstRoom == unitsSeen < MaxBurst /\ bidiH = {} /\ uniH = {}

NextBurst ==
    \/ StartAcceptLoop
    \/ AcceptStream({<<WTFrame(0)>>}, BurstRoom)
    \/ \E h \in bidiH : BidiClassify(h)
    \/ \E h \in bidiH : BidiLookup(h)
    \/ \E h \in bidiH : BidiSend(h)
    \/ AcceptUniStream({[tag |-> StreamTypeWebTransportStream, sid |-> 0]}, BurstRoom)
    \/ \E h \in uniH : UniReadType(h)
    \/ \E h \in uniH : UniLookup(h)
    \/ \E h \in uniH : UniSend(h)
    \/ \E k \in StreamKinds : AcceptLookup(k, 0, AcceptsTotal < MaxAccepts)
    \/ \E k \in StreamKinds : AcceptRecv(k, 0)

SpecBurst == InitDemux /\ [][NextBurst]_vars

SpecUni == InitUni /\ [][NextUni]_vars

\* The HEADERS frames of the responses of NextConn: a response with the
\* status 200 and one with an empty :status.
ConnHeaders ==
    {<<HeaderField(pseudoHeaderStatus, <<"2", "0", "0">>)>>,
     <<HeaderField(pseudoHeaderStatus, <<>>)>>}

\* A connection from its construction on.  A client runs one RoundTrip call;
\* a server accepts request streams (a client that has not enabled
\* WebTransport sets MaxIncomingStreams to -1, so only a server is sent
\* bidirectional streams).
NextConn ==
    \/ SessionGone
    \/ HandshakeComplete
    \/ NewConnOpenUniStream
    \/ NewConnWriteType
    \/ NewConnWriteSettings
    \/ \E r \in FirstCall, w \in BOOLEAN, m \in Methods : RoundTrip(r, w, m)
    \/ \E r \in FirstCall : DialOnce(r)
    \/ \E r \in FirstCall, ok \in BOOLEAN : Dial(r, ok)
    \/ \E r \in FirstCall : DialReturn(r)
    \/ \E r \in FirstCall : WaitHandshake(r)
    \/ \E r \in FirstCall, ok \in BOOLEAN : OpenRequestStream(r, ok)
    \/ \E r \in FirstCall, ok \in BOOLEAN : WriteRequest(r, ok, FALSE, 0, FALSE)
    \/ \E r \in FirstCall, e \in ReadHeadersErrors, h \in ConnHeaders : ReadHeaders(r, e, h)
    \/ \E r \in FirstCall : RoundTripCloseReqDone(r)
    \/ \E r \in FirstCall : RoundTripClassify(r)
    \/ \E r \in FirstCall : CtxCancel(r)
    \/ \E r \in FirstCall : ObsSelect(r)
    \/ \E r \in FirstCall : ObsCancelWrite(r)
    \/ \E r \in FirstCall : ObsCancelRead(r)
    \/ \E r \in FirstCall : BodyReadError(r)
    \/ \E r \in FirstCall : BodyReadDone(r)
    \/ \E r \in FirstCall : BodyClose(r)
    \/ \E r \in FirstCall : BodyCloseDone(r)
    \/ StartAcceptLoop
    \/ AcceptStream({<<Frame("HEADERS")>>}, role = "server" /\ unitsSeen < MaxBidiStreams)
    \/ \E h \in bidiH : BidiClassify(h)
    \/ \E h \in bidiH : BidiHandoff(h)
    \/ AcceptRequestStream

InitConn ==
    /\ Init
    /\ newc # Constructed
    /\ settings = [datagram |-> FALSE, webtransport |-> FALSE]
    /\ supportsDatagrams = FALSE

\* A started goroutine is scheduled: the observer, once spawned, takes its
\* steps, none of which blocks other than the select.
Observer(r) == ObsSelect(r) \/ ObsCancelWrite(r) \/ ObsCancelRead(r)
ObserverRuns == \A r \in Requests : WF_vars(Observer(r))

SpecConn == InitConn /\ [][NextConn]_vars /\ ObserverRuns

\* ------------------------------------------------- the response headers
\* One RoundTrip call and the HEADERS frames the server answers with.  The
\* values of :status: final, interim, out of the range of three digits,
\* empty, not a number, negative.
StatusValues ==
    {<<"2", "0", "0">>, <<"1", "0", "1">>, <<"1", "9", "9">>, <<"9", "9">>,
     <<"1", "0", "0", "0">>, <<>>, <<"f", "o", "o">>, <<"-", "1">>}
OtherField == HeaderField("foo", <<"1">>)
\* A HEADERS frame has no fields, or one :status and possibly another field
\* before or after it.
ResponseHeaders ==
    {<<>>, <<OtherField>>}
    \cup {<<HeaderField(pseudoHeaderStatus, v)>> : v \in StatusValues}
    \cup {<<HeaderField(pseudoHeaderStatus, v), OtherField>> : v \in StatusValues}
    \cup {<<OtherField, HeaderField(pseudoHeaderStatus, v)>> : v \in StatusValues}

NextHeaders ==
    \/ HandshakeComplete
    \/ NewConnOpenUniStream
    \/ NewConnWriteType
    \/ NewConnWriteSettings
    \/ \E r \in FirstCall, w \in BOOLEAN, m \in Methods : RoundTrip(r, w, m)
    \/ \E r \in FirstCall : DialOnce(r)
    \/ \E r \in FirstCall, ok \in BOOLEAN : Dial(r, ok)
    \/ \E r \in FirstCall : DialReturn(r)
    \/ \E r \in FirstCall : WaitHandshake(r)
    \/ \E r \in FirstCall, ok \in BOOLEAN : OpenRequestStream(r, ok)
    \/ \E r \in FirstCall, ok \in BOOLEAN : WriteRequest(r, ok, FALSE, 0, FALSE)
    \/ \E r \in FirstCall, e \in ReadHeadersErrors, h \in ResponseHeaders : ReadHeaders(r, e, h)
    \/ \E r \in FirstCall : RoundTripCloseReqDone(r)
    \/ \E r \in FirstCall : RoundTripClassify(r)
    \/ \E r \in FirstCall : CtxCancel(r)
    \/ \E r \in FirstCall : ObsSelect(r)
    \/ \E r \in FirstCall : ObsCancelWrite(r)
    \/ \E r \in FirstCall : ObsCancelRead(r)

InitHeaders == InitConn /\ role = "client"

SpecHeaders == InitHeaders /\ [][NextHeaders]_vars

\* ------------------------------------------------ dial and the handshake
\* The RoundTrip calls of one client, one after the other or at the same
\* time, from dialOnce to the request written on the request stream; the
\* server does not answer.
NextDial ==
    \/ SessionGone
    \/ HandshakeComplete
    \/ NewConnOpenUniStream
    \/ NewConnWriteType
    \/ NewConnWriteSettings
    \/ \E r \in Requests, w \in BOOLEAN, m \in Methods : RoundTrip(r, w, m)
    \/ \E r \in Requests : DialOnce(r)
    \/ \E r \in Requests, ok \in BOOLEAN : Dial(r, ok)
    \/ \E r \in Requests : DialReturn(r)
    \/ \E r \in Requests : WaitHandshake(r)
    \/ \E r \in Requests, ok \in BOOLEAN : OpenRequestStream(r, ok)
    \/ \E r \in Requests, ok \in BOOLEAN : WriteRequest(r, ok, FALSE, 0, FALSE)
    \/ \E r \in Requests : CtxCancel(r)

SpecDial == InitHeaders /\ [][NextDial]_vars

\* ------------------------------------------------- the request on the wire
\* One RoundTrip call for a POST or CONNECT request with or without a body
\* and trailers, the body-send goroutine running beside doRequest.
WriteMethods == {MethodPost, MethodConnect}
NextWrite ==
    \/ HandshakeComplete
    \/ NewConnOpenUniStream
    \/ NewConnWriteType
    \/ NewConnWriteSettings
    \/ \E r \in FirstCall, m \in WriteMethods : RoundTrip(r, FALSE, m)
    \/ \E r \in FirstCall : DialOnce(r)
    \/ \E r \in FirstCall : Dial(r, TRUE)
    \/ \E r \in FirstCall : DialReturn(r)
    \/ \E r \in FirstCall : WaitHandshake(r)
    \/ \E r \in FirstCall : OpenRequestStream(r, TRUE)
    \/ \E r \in FirstCall, ok, hasBody, trailer \in BOOLEAN, chunks \in 0..MaxChunks :
          WriteRequest(r, ok, hasBody, chunks, trailer)
    \/ \E r \in FirstCall, o \in CopyOutcomes : SendCopy(r, o)
    \/ \E r \in FirstCall, ok \in BOOLEAN : SendTrailers(r, ok)
    \/ \E r \in FirstCall : SendClose(r)
    \/ \E r \in FirstCall, e \in ReadHeadersErrors, h \in ConnHeaders : ReadHeaders(r, e, h)
    \/ \E r \in FirstCall : RoundTripCloseReqDone(r)
    \/ \E r \in FirstCall : RoundTripClassify(r)
    \/ \E r \in FirstCall : CtxCancel(r)
    \/ \E r \in FirstCall : ObsSelect(r)
    \/ \E r \in FirstCall : ObsCancelWrite(r)
    \/ \E r \in FirstCall : ObsCancelRead(r)

SpecWrite == InitHeaders /\ [][NextWrite]_vars

\* ---------------------------------------------------- the server's requests
\* A server with its settings and the request streams it handles, each in
\* its own goroutine; the session may be closed at any time.
FieldSectionSizes == {0, testMaxHeaderBytes}
HeaderLengths ==
    {testMaxHeaderBytes, testMaxHeaderBytes + 1,
     defaultMaxFieldSectionSize, defaultMaxFieldSectionSize + 1}
NextServer ==
    \/ SessionGone
    \/ \E max \in FieldSectionSizes : ServerConn(max)
    \/ \E i \in Served, len \in HeaderLengths : HandleRequestStream(i, len)
    \/ \E i \in Served : ServeReadHeaders(i)
    \/ \E i \in Served : HandlerDataStream(i)
    \/ \E i \in Served : HandlerReadBody(i)
    \/ \E i \in Served : HandlerReturn(i)
    \/ \E i \in Served : ServeFinish(i)

InitServer == Init /\ role = "server" /\ newc = Constructed /\ settings.webtransport = FALSE

SpecServer == InitServer /\ [][NextServer]_vars

\* ------------------------------------------------- a burst of datagrams
\* Datagrams for two sessions, more than a channel holds, and the sessions'
\* readDatagram calls.
NextDatagrams ==
    \/ SessionGone
    \/ DgReceive(ValidSessionIDs, unitsSeen < MaxBurst)
    \/ DgLookup
    \/ DgSend
    \/ \E i \in ValidSessionIDs : AcceptLookup("dgram", i, AcceptsTotal < MaxAccepts)
    \/ \E i \in ValidSessionIDs : AcceptRecv("dgram", i)

SpecDatagrams == InitDemux /\ [][NextDatagrams]_vars

\* ------------------------------------------------------ session cleanup
\* cleanup calls against the sessions' accept and read calls and the
\* datagram handler.
NextCleanup ==
    \/ DgReceive(ValidSessionIDs, unitsSeen < MaxUnits)
    \/ DgLookup
    \/ DgSend
    \/ \E k \in Kinds, i \in ValidSessionIDs : AcceptLookup(k, i, AcceptsTotal < MaxAccepts)
    \/ \E k \in Kinds, i \in ValidSessionIDs : AcceptRecv(k, i)
    \/ \E step \in 0..2 : Cleanup(step)

SpecCleanup == InitDemux /\ [][NextCleanup]_vars

\* ------------------------------------------------ the response's length
\* The final statuses, the methods and the header fields of a response.
ResponseStatuses == {0, 200, 204, 299, 300, 404}
LengthValues ==
    {<<"1", "3", "3", "7">>, <<"0">>, <<"0", "0", "7">>, <<"-", "1">>, <<"+", "5">>,
     <<>>, <<"1", "2", "a">>, <<"-">>, MaxInt64 \o <<"0">>, MinInt64}
LengthFields ==
    {<<>>}
      \cup {<<HeaderField("content-length", v)>> : v \in LengthValues}
      \cup {<<HeaderField("content-length", v), HeaderField("content-length", <<"0">>)>> :
               v \in {<<"1", "3", "3", "7">>, <<"0">>}}
CodingFields ==
    {<<>>, <<HeaderField("transfer-encoding", <<"c", "h", "u", "n", "k", "e", "d">>)>>,
     <<HeaderField("content-encoding", <<"g", "z", "i", "p">>)>>}
NextLength ==
    \/ \E statusCode \in ResponseStatuses, method \in WriteMethods,
          l \in LengthFields, c \in CodingFields, requestGzip \in BOOLEAN :
          SetContentLength(statusCode, method, c \o l, requestGzip)
    \/ ReturnResponse

SpecLength == InitHeaders /\ [][NextLength]_vars

\* ------------------------------------------------------ header limits
\* The control stream of the peer against the calls that compute the limits
\* of incoming and outgoing headers.
SelectBranches == {"ready", "gone", "default"}
NextLimits ==
    \/ SessionGone
    \/ \E max \in FieldSectionSizes : ServerConn(max)
    \/ AcceptUniStream({c \in UniPlain : c.tag = StreamTypeControl}, unitsSeen < MaxUniStreams)
    \/ \E h \in uniH : UniReadType(h)
    \/ \E h \in uniH : UniStore(h)
    \/ \E h \in uniH : UniCheckDup(h)
    \/ \E c \in ctlH : CtlReadSettings(c)
    \/ \E c \in ctlH : CtlCloseLatch(c)
    \/ \E c \in ctlH : CtlCheckErr(c)
    \/ \E c \in ctlH : CtlCheckDatagram(c)
    \/ \E c \in ctlH : CtlStoreErr(c)
    \/ MaxHeaderBytes
    \/ \E b \in SelectBranches : PeerMaxHeaderBytes(b)

InitLimits == InitUni /\ role = "server"

SpecLimits == InitLimits /\ [][NextLimits]_vars

\* ------------------------------------------- WebTransport on or off
\* WebTransport streams of the peer on a server with and without
\* WebTransport in its settings; no accept call is made.
NextWT ==
    \/ StartAcceptLoop
    \/ AcceptStream(BidiWTContents, unitsSeen < MaxUnits)
    \/ \E h \in bidiH : BidiClassify(h)
    \/ \E h \in bidiH : BidiLookup(h)
    \/ \E h \in bidiH : BidiSend(h)
    \/ AcceptUniStream(UniWT, unitsSeen < MaxUnits)
    \/ \E h \in uniH : UniReadType(h)
    \/ \E h \in uniH : UniLookup(h)
    \/ \E h \in uniH : UniSend(h)

InitWT ==
    /\ Init
    /\ newc = Constructed
    /\ role = "server"
    /\ settings.datagram = FALSE
    /\ supportsDatagrams = FALSE

SpecWT == InitWT /\ [][NextWT]_vars

\* ------------------------------------------- the accept loop's shutdown
\* Request streams of the peer until the session is closed: the peer opens
\* the next stream once every handler has handed its stream over or is
\* blocked on the full channel, and the application keeps calling
\* AcceptRequestStream.
ShutdownRoom ==
    /\ unitsSeen < MaxBurst
    /\ \A h \in bidiH : h.pc = "handoff" /\ Len(reqChan) = maxBufferedStreams

NextShutdown ==
    \/ StartAcceptLoop
    \/ AcceptStream({<<Frame("HEADERS")>>}, ShutdownRoom)
    \/ \E h \in bidiH : BidiClassify(h)
    \/ \E h \in bidiH : BidiHandoff(h)
    \/ SessionGone
    \/ AcceptStreamFails
    \/ CloseRequestChannel
    \/ AcceptRequestStream

\* The goroutines of the handlers and of the accept loop are scheduled, and
\* the application receives the buffered streams.
SpecShutdown ==
    /\ InitBidi
    /\ [][NextShutdown]_vars
    /\ WF_vars(\E h \in bidiH : BidiClassify(h))
    /\ WF_vars(\E h \in bidiH : BidiHandoff(h))
    /\ WF_vars(CloseRequestChannel)
    /\ WF_vars(AcceptRequestStream /\ reqChan' # reqChan)

\* ------------------------------------- sessions' streams and their calls
\* WebTransport streams of the peer, the accept and read calls of the
\* sessions with their contexts, and cleanup.
NextSessions ==
    \/ StartAcceptLoop
    \/ AcceptStream({<<WTFrame(i)>> : i \in ValidSessionIDs}, unitsSeen < MaxUnits)
    \/ \E h \in bidiH : BidiClassify(h)
    \/ \E h \in bidiH : BidiLookup(h)
    \/ \E h \in bidiH : BidiSend(h)
    \/ AcceptUniStream({c \in UniWT : c.sid \in ValidSessionIDs}, unitsSeen < MaxUnits)
    \/ \E h \in uniH : UniReadType(h)
    \/ \E h \in uniH : UniLookup(h)
    \/ \E h \in uniH : UniSend(h)
    \/ \E k \in Kinds, i \in ValidSessionIDs : AcceptLookup(k, i, AcceptsTotal < MaxAccepts)
    \/ \E k \in Kinds, i \in ValidSessionIDs : AcceptRecv(k, i)
    \/ \E k \in Kinds, i \in ValidSessionIDs : AcceptCtxCancel(k, i)
    \/ \E k \in Kinds, i \in ValidSessionIDs : AcceptReturnErr(k, i)
    \/ \E step \in 0..2 : Cleanup(step)

SpecSessions == InitDemux /\ [][NextSessions]_vars

====
